---- MODULE Spec2Model ----
(***************************************************************************)
(* A state-machine model of DICOMScanStation.                              *)
(*                                                                         *)
(*   SpecExport    DicomService.SendToPacs: the per-file export pipeline   *)
(*                 (img2dcm, dcmodify, dcmsend, cleanup) over the JPG      *)
(*                 files of the temp directory.                            *)
(*   SpecRegistry  ScannerManager: the poll loop (StartMonitoring /        *)
(*                 detectScanners), GetScanners / GetConnectedScanners     *)
(*                 called from request handlers, and Stop.                 *)
(*                                                                         *)
(* Text is modelled by strings; fmt.Sprintf is string concatenation.       *)
(***************************************************************************)
EXTENDS Integers, Sequences, FiniteSets, TLC

VARIABLES
    clock,              \* the wall-clock second of the latest time.Now()
    \* ---- DicomService.SendToPacs ----
    storage,            \* the files of config.TempFilesDir
    expPc,              \* position of the SendToPacs call
    runs,               \* SendToPacs calls started so far
    studyID,            \* local studyID
    studyInstanceUID,   \* local studyInstanceUID
    seriesInstanceUID,  \* local seriesInstanceUID
    jpgFiles,           \* local jpgFiles, the result of getJpgFilesFromTempDir
    idx,                \* loop index i (0-based, as in the source)
    dcmFile,            \* local dcmFile of the current iteration
    progress,           \* local progress []FileProgress
    returned,           \* what SendToPacs returned: "none", "progress", "error"
    calls,              \* log of the external tool invocations of this run
    issuedUIDs,         \* the study instance UIDs of the runs so far, kept for the properties only
    \* ---- ScannerManager ----
    scanners,           \* sm.scanners: device address -> *ScannerInfo
    mu,                 \* sm.mu: "free" or "locked" (held by detectScanners)
    pollPc,             \* position of the StartMonitoring goroutine
    currentScanners,    \* local currentScanners of detectScanners
    todo,               \* entries a range loop over sm.scanners has still to visit
    cur,                \* the entry detectScanners is writing, or NoDevice
    cancelled,          \* sm.ctx is cancelled
    stopChanClosed,     \* sm.stopChan is closed
    panicked,           \* the process died of a runtime panic
    rdPc,               \* a request handler: "idle" or "holding" a returned slice
    rdList,             \* the []*ScannerInfo the handler got
    rdCur,              \* the entry whose fields the handler is reading
    rdField,            \* how many of Connected, Status it has read of rdCur
    obs,                \* the field values it has read
    \* history of the poll cycles, kept for the properties only
    enumerated,         \* addresses in the output lines of the current or last cycle
    preCycle,           \* the registry when the current or last cycle took the lock
    lastOutcome,        \* "none", "ok" or "failed": how the last finished cycle ended
    prevAbsent,         \* entries absent in the cycle before, if it succeeded
    inserted,           \* addresses ever inserted
    versions,           \* committed values of rdCur since the handler began to read it
    \* ---- ScannerManager.ScanDocument ----
    scPc,               \* position of the ScanDocument call
    scDevice,           \* parameter device
    scOptions,          \* parameter options (NoOptions is nil), after the defaults
    scScanner,          \* local scanner: the registry entry looked up, or NoDevice
    scBase,             \* local baseFilename
    scArgs,             \* local args, the argument list of scanimage
    scPageNum,          \* local pageNum
    scFilenames,        \* local filenames
    scResult,           \* what ScanDocument returned: [filenames, err]
    scLog,              \* the tool runs and os.Stat calls of this ScanDocument call
    \* ---- DicomService.SearchPatients ----
    srPc,               \* position of the SearchPatients call
    srTerm,             \* parameter searchTerm
    srType,             \* parameter searchType
    srPatterns,         \* local searchPatterns
    srNext,             \* index of the next pattern of the range loop
    allPatients,        \* local allPatients
    seenPatients,       \* local seenPatients
    srResult,           \* what SearchPatients returned: [patients, err]
    srLog,              \* the findscu invocations of this SearchPatients call
    \* ---- Router.startScan ----
    rqPc,               \* position of each POST /api/scan request
    rqLog,              \* the scanimage starts: the request and the files it found
    \* ---- calls of the pure functions ----
    pfPc,               \* "input" before the call, "output" after it
    pfIn,               \* the argument
    pfOut               \* the return value

expVars == <<storage, expPc, runs, studyID, studyInstanceUID, seriesInstanceUID,
             jpgFiles, idx, dcmFile, progress, returned, calls, issuedUIDs>>

scanVars == <<scPc, scDevice, scOptions, scScanner, scBase, scArgs, scPageNum,
              scFilenames, scResult, scLog>>

srchVars == <<srPc, srTerm, srType, srPatterns, srNext, allPatients, seenPatients,
              srResult, srLog>>

regVars == <<scanners, mu, pollPc, currentScanners, todo, cur, cancelled,
             stopChanClosed, panicked, rdPc, rdList, rdCur, rdField, obs, enumerated,
             preCycle, lastOutcome, prevAbsent, inserted, versions>>

reqVars == <<rqPc, rqLog>>

callVars == <<pfPc, pfIn, pfOut>>

vars == <<clock, expVars, regVars, scanVars, srchVars, reqVars, callVars>>

----------------------------------------------------------------------------
(* Bounds of the model *)

MaxTime == 1
MaxFiles == 3
MaxRuns == 2
MaxWritten == 3

----------------------------------------------------------------------------
(* Text helpers *)

Digit(d) ==
    CASE d = 0 -> "0" [] d = 1 -> "1" [] d = 2 -> "2" [] d = 3 -> "3"
      [] d = 4 -> "4" [] d = 5 -> "5" [] d = 6 -> "6" [] d = 7 -> "7"
      [] d = 8 -> "8" [] d = 9 -> "9"

RECURSIVE Itoa(_)
\* fmt.Sprintf("%d", n) for n >= 0
Itoa(n) == IF n < 10 THEN Digit(n) ELSE Itoa(n \div 10) \o Digit(n % 10)

\* time.Now().Format("20060102150405"): the clock counts the seconds of one minute
FormatTimestamp(t) == "202501011200" \o Digit((t \div 10) % 10) \o Digit(t % 10)

\* the values crypto/rand can give generateStudyID, as fmt.Sprintf("%x", ...)
RandomHex == {"0a0b0c0d", "f1f2f3f4"}

\* what an external tool reports when it fails: the exec error and the combined output
ToolErrors(tool) ==
    CASE tool = "img2dcm" -> { [err |-> "exit status 1", output |-> "F: cannot open file"] }
      [] tool = "dcmodify" -> { [err |-> "exit status 2", output |-> "E: bad tag value"] }
      [] tool = "dcmsend" -> { [err |-> "signal: killed", output |-> ""] }

----------------------------------------------------------------------------
(* DicomService *)

JpgFile(n) == [base |-> "scan_" \o Itoa(n), ext |-> "jpg"]

AllJpgFiles == { JpgFile(n) : n \in 1..MaxFiles }

\* strings.Replace(jpgFile, ".jpg", ".dcm", 1)
DcmName(jpgFile) == [jpgFile EXCEPT !.ext = "dcm"]

\* generateStudyID
generateStudyID(now, rnd) == "STUDY_" \o FormatTimestamp(now) \o "_" \o rnd

StudyInstanceUID(now) == "1.2.840.10008.1.2.3." \o FormatTimestamp(now)

SeriesInstanceUID(study) == study \o ".1"

\* updateDicomWithPatientData: sopInstanceUID
SopInstanceUID(series, instanceNumber) == series \o "." \o Itoa(instanceNumber)

\* mutant: the loop index is used as the instance number
InstanceNumberZeroBased(i) == i

\* line 346: instanceNumber := i + 1
InstanceNumber(i) == i + 1

\* mutant: every page gets a series of its own
TagsForSeriesPerPage(i) ==
    [studyID |-> studyID,
     studyInstanceUID |-> studyInstanceUID,
     seriesInstanceUID |-> studyInstanceUID \o "." \o Itoa(InstanceNumber(i)),
     sopInstanceUID |-> SopInstanceUID(seriesInstanceUID, InstanceNumber(i)),
     instanceNumber |-> InstanceNumber(i)]

\* updateDicomWithPatientData: the identifiers dcmodify is given for page i
TagsFor(i) ==
    [studyID |-> studyID,
     studyInstanceUID |-> studyInstanceUID,
     seriesInstanceUID |-> seriesInstanceUID,
     sopInstanceUID |-> SopInstanceUID(seriesInstanceUID, InstanceNumber(i)),
     instanceNumber |-> InstanceNumber(i)]

\* the error values the three stage functions return
ConvertError(e) == "img2dcm failed: " \o e.err \o ", output: " \o e.output
UpdateError(e) == "dcmodify failed: " \o e.err \o ", output: " \o e.output
SendError(e) == "dcmsend failed: " \o e.err \o ", output: " \o e.output

FileProgress(f, s, m, p) ==
    [Filename |-> f.base \o "." \o f.ext, Status |-> s, Message |-> m, Progress |-> p]

\* lines 332-334, 350-352, 366-368: the entry of a page one of whose stages failed
\* mutant: a failed page keeps the progress of its last stage
FailedProgressKeeps(f, what, error) == FileProgress(f, "failed", what \o error, 20)

FailedProgress(f, what, error) == FileProgress(f, "failed", what \o error, 0)

\* mutant: a cleanup error fails the page
CompletedProgressUnlessCleanupFailed(f, cleanupOk) ==
    IF cleanupOk
        THEN FileProgress(f, "completed", "Successfully uploaded to PACs and cleaned up", 100)
        ELSE FileProgress(f, "failed", "Cleanup failed", 0)

\* mutant: the entry is left in the clean stage
CompletedProgressStaysCleaning(f, cleanupOk) ==
    FileProgress(f, "cleaning", "Cleaning up temporary files...", 90)

\* lines 380-389: the entry after cleanupFiles; its error is logged and dropped
CompletedProgress(f, cleanupOk) ==
    FileProgress(f, "completed", "Successfully uploaded to PACs and cleaned up", 100)

\* the page number in a file name
PageOf(f) == CHOOSE n \in 0..MaxFiles : JpgFile(n).base = f.base

RECURSIVE Ascending(_)
\* the files of S by page number
Ascending(S) ==
    IF S = {} THEN <<>>
    ELSE LET f == CHOOSE x \in S : \A y \in S : PageOf(x) <= PageOf(y)
         IN <<f>> \o Ascending(S \ {f})

Reverse(s) == [ i \in 1..Len(s) |-> s[Len(s) + 1 - i] ]

\* the orders in which find lists the files S: directory order, which is
\* modelled as the name order or its reverse
Orders(S) == { Ascending(S), Reverse(Ascending(S)) }

\* the loop's continue / end of body: the next index, or the return after the last
Advance(i) ==
    IF i + 1 < Len(jpgFiles)
        THEN /\ idx' = i + 1
             /\ expPc' = "page"
             /\ returned' = returned
        ELSE /\ idx' = i + 1
             /\ expPc' = "idle"
             /\ returned' = "progress"

\* mutant: a failed stage ends the run (break instead of continue)
AfterFailureBreak(i) ==
    /\ idx' = i
    /\ expPc' = "idle"
    /\ returned' = "progress"

\* lines 336, 354, 370: continue after a stage of page i failed
AfterFailure(i) == Advance(i)

\* mutant: an error of cleanupFiles ends the run
AfterCleanupStopOnError(i, cleanupOk) ==
    IF cleanupOk THEN Advance(i) ELSE AfterFailureBreak(i)

\* lines 380-392: the error of cleanupFiles is logged, and the loop goes on
AfterCleanup(i, cleanupOk) == Advance(i)

\* mutant: a wall clock that is set back between two calls
NowSetBack == 0..MaxTime

\* what a call of time.Now() can return: the time of the last call or a later one
Now == clock..MaxTime

\* SendToPacs, lines 287-288: a call starts and generates the study ID
ExportStart ==
    /\ expPc = "idle"
    /\ runs < MaxRuns
    /\ runs' = runs + 1
    /\ \E now \in Now, rnd \in RandomHex :
          /\ clock' = now
          /\ studyID' = generateStudyID(now, rnd)
    /\ studyInstanceUID' = ""
    /\ seriesInstanceUID' = ""
    /\ expPc' = "context"
    /\ jpgFiles' = <<>>
    /\ progress' = <<>>
    /\ calls' = <<>>
    /\ idx' = 0
    /\ returned' = "none"
    /\ dcmFile' = DcmName(JpgFile(0))
    /\ UNCHANGED storage
    /\ UNCHANGED issuedUIDs

\* SendToPacs, lines 289-291: the second time.Now() and the two UIDs
ExportContext ==
    /\ expPc = "context"
    /\ \E now \in Now :
          /\ clock' = now
          /\ studyInstanceUID' = StudyInstanceUID(now)
          /\ issuedUIDs' = Append(issuedUIDs, StudyInstanceUID(now))
    /\ seriesInstanceUID' = SeriesInstanceUID(studyInstanceUID')
    /\ expPc' = "find"
    /\ UNCHANGED <<storage, runs, studyID, jpgFiles, idx, dcmFile, progress,
                   returned, calls>>

\* SendToPacs, lines 298-306, and getJpgFilesFromTempDir
ExportFind ==
    /\ expPc = "find"
    /\ \/ /\ expPc' = "idle"
          /\ returned' = "error"
          /\ UNCHANGED jpgFiles
       \/ \E order \in Orders({ f \in storage : f.ext = "jpg" }) :
            /\ jpgFiles' = order
            /\ IF Len(order) = 0
                 THEN expPc' = "idle" /\ returned' = "progress"
                 ELSE expPc' = "page" /\ returned' = returned
    /\ UNCHANGED <<clock, storage, runs, studyID, studyInstanceUID, seriesInstanceUID,
                   idx, dcmFile, progress, calls>>
    /\ UNCHANGED issuedUIDs

\* lines 310-319: a new page's progress entry
PageInit ==
    /\ expPc = "page"
    /\ progress' = Append(progress,
           FileProgress(jpgFiles[idx + 1], "converting",
                        "Converting JPG to DICOM format...", 0))
    /\ expPc' = "convert"
    /\ UNCHANGED <<clock, storage, runs, studyID, studyInstanceUID, seriesInstanceUID,
                   jpgFiles, idx, dcmFile, returned, calls>>
    /\ UNCHANGED issuedUIDs

\* lines 324-329: progress 20, img2dcm is started
ConvertBegin ==
    /\ expPc = "convert"
    /\ progress' = [progress EXCEPT ![idx + 1] =
           FileProgress(jpgFiles[idx + 1], "converting",
                        "Converting JPG to DICOM format...", 20)]
    /\ expPc' = "img2dcm"
    /\ UNCHANGED <<clock, storage, runs, studyID, studyInstanceUID, seriesInstanceUID,
                   jpgFiles, idx, dcmFile, returned, calls>>
    /\ UNCHANGED issuedUIDs

\* convertJpgToDicom returns; lines 330-343
ConvertEnd ==
    /\ expPc = "img2dcm"
    /\ LET f == jpgFiles[idx + 1] IN
       \/ \E e \in ToolErrors("img2dcm") :
            /\ calls' = Append(calls, [page |-> idx, tool |-> "img2dcm", ok |-> FALSE,
                                       error |-> ConvertError(e), file |-> f])
            /\ progress' = [progress EXCEPT ![idx + 1] =
                   FailedProgress(f, "Conversion failed: ", ConvertError(e))]
            /\ AfterFailure(idx)
            /\ UNCHANGED <<storage, dcmFile>>
       \/ /\ f \in storage
          /\ calls' = Append(calls, [page |-> idx, tool |-> "img2dcm", ok |-> TRUE,
                                     error |-> "", file |-> f])
          /\ dcmFile' = DcmName(f)
          /\ storage' = storage \cup {DcmName(f)}
          /\ progress' = [progress EXCEPT ![idx + 1] =
                 FileProgress(f, "updating", "Updating DICOM with patient data...", 50)]
          /\ expPc' = "dcmodify"
          /\ UNCHANGED <<idx, returned>>
    /\ UNCHANGED <<clock, runs, studyID, studyInstanceUID, seriesInstanceUID, jpgFiles>>
    /\ UNCHANGED issuedUIDs

\* updateDicomWithPatientData returns; lines 345-361
UpdateEnd ==
    /\ expPc = "dcmodify"
    /\ LET f == jpgFiles[idx + 1]
           tags == TagsFor(idx)
       IN
       \/ \E e \in ToolErrors("dcmodify") :
            /\ calls' = Append(calls, [page |-> idx, tool |-> "dcmodify", ok |-> FALSE,
                                       error |-> UpdateError(e), file |-> dcmFile,
                                       tags |-> tags])
            /\ progress' = [progress EXCEPT ![idx + 1] =
                   FailedProgress(f, "Update failed: ", UpdateError(e))]
            /\ AfterFailure(idx)
       \/ /\ dcmFile \in storage
          /\ calls' = Append(calls, [page |-> idx, tool |-> "dcmodify", ok |-> TRUE,
                                     error |-> "", file |-> dcmFile, tags |-> tags])
          /\ progress' = [progress EXCEPT ![idx + 1] =
                 FileProgress(f, "sending", "Sending to PACs server...", 80)]
          /\ expPc' = "dcmsend"
          /\ UNCHANGED <<idx, returned>>
    /\ UNCHANGED <<clock, storage, runs, studyID, studyInstanceUID, seriesInstanceUID,
                   jpgFiles, dcmFile>>
    /\ UNCHANGED issuedUIDs

\* sendDicomToPacs returns; lines 363-377
SendEnd ==
    /\ expPc = "dcmsend"
    /\ LET f == jpgFiles[idx + 1] IN
       \/ \E e \in ToolErrors("dcmsend") :
            /\ calls' = Append(calls, [page |-> idx, tool |-> "dcmsend", ok |-> FALSE,
                                       error |-> SendError(e), file |-> dcmFile])
            /\ progress' = [progress EXCEPT ![idx + 1] =
                   FailedProgress(f, "Upload failed: ", SendError(e))]
            /\ AfterFailure(idx)
       \/ /\ dcmFile \in storage
          /\ calls' = Append(calls, [page |-> idx, tool |-> "dcmsend", ok |-> TRUE,
                                     error |-> "", file |-> dcmFile])
          /\ progress' = [progress EXCEPT ![idx + 1] =
                 FileProgress(f, "cleaning", "Cleaning up temporary files...", 90)]
          /\ expPc' = "cleanup"
          /\ UNCHANGED <<idx, returned>>
    /\ UNCHANGED <<clock, storage, runs, studyID, studyInstanceUID, seriesInstanceUID,
                   jpgFiles, dcmFile>>
    /\ UNCHANGED issuedUIDs

\* cleanupFiles: the files for which os.Remove is called
RemoveCalls(jpg, dcm, jpgOk) == IF jpgOk THEN <<jpg, dcm>> ELSE <<jpg>>

\* mutant: the clean stage empties the temp directory
cleanupFilesWholeDir(jpg, dcm, jpgOk, dcmOk) == {}

\* cleanupFiles: os.Remove of the JPG, then of the DCM unless the first failed
cleanupFiles(jpg, dcm, jpgOk, dcmOk) ==
    IF ~jpgOk THEN storage
    ELSE IF ~dcmOk THEN storage \ {jpg}
    ELSE storage \ {jpg, dcm}

\* cleanupFiles returns; lines 379-392
CleanupEnd ==
    /\ expPc = "cleanup"
    /\ LET f == jpgFiles[idx + 1] IN
       \E jpgOk, dcmOk \in BOOLEAN :
          /\ jpgOk \/ dcmOk
          /\ storage' = cleanupFiles(f, dcmFile, jpgOk, dcmOk)
          /\ calls' = Append(calls, [page |-> idx, tool |-> "cleanup",
                                     ok |-> jpgOk /\ dcmOk, error |-> "", file |-> f,
                                     removes |-> RemoveCalls(f, dcmFile, jpgOk)])
          /\ progress' = [progress EXCEPT ![idx + 1] =
                 CompletedProgress(f, jpgOk /\ dcmOk)]
          /\ AfterCleanup(idx, jpgOk /\ dcmOk)
    /\ UNCHANGED <<clock, runs, studyID, studyInstanceUID, seriesInstanceUID, jpgFiles,
                   dcmFile>>
    /\ UNCHANGED issuedUIDs

\* the positions at which SendToPacs waits in cmd.CombinedOutput()
ToolPcs == {"img2dcm", "dcmodify", "dcmsend"}

\* lines 429-435, 487-507, 520-529: the tool is started with exec.Command, with
\* no context and no deadline, and CombinedOutput returns when the process
\* exits. A tool that never exits leaves SendToPacs waiting: nothing of the
\* call runs after this.
ToolHangs ==
    /\ expPc \in ToolPcs
    /\ expPc' = "blocked"
    /\ UNCHANGED <<clock, storage, runs, studyID, studyInstanceUID, seriesInstanceUID,
                   jpgFiles, idx, dcmFile, progress, returned, calls>>
    /\ UNCHANGED issuedUIDs

ExportIdle ==
    /\ expPc = "idle"
    /\ runs = 0
    /\ studyID = ""
    /\ studyInstanceUID = ""
    /\ seriesInstanceUID = ""
    /\ jpgFiles = <<>>
    /\ idx = 0
    /\ dcmFile = DcmName(JpgFile(0))
    /\ progress = <<>>
    /\ returned = "none"
    /\ calls = <<>>
    /\ issuedUIDs = <<>>

----------------------------------------------------------------------------
(* ScannerManager *)

\* device addresses and display names that scanimage -L can report
Devices == {"fujitsu:fi-7030:211822", "epson2:libusb:001:004"}
DeviceNames == {"alpha scanner", "Beta scanner"}

NoDevice == "(none)"

\* a line of the scanimage -L output: a device line
\*   device `<address>' is a <name>
\* or a line the parser skips (lines 103-105, 108, 112-114, 119-121)
OutputLines ==
    [kind : {"device"}, device : Devices, name : DeviceNames]
        \cup { [kind |-> "other", device |-> NoDevice, name |-> ""] }

\* time.Now().Format(time.RFC3339)
FormatRFC3339(t) == "2025-01-01T12:00:" \o Digit((t \div 10) % 10) \o Digit(t % 10) \o "Z"

\* lines 131-137: the entry of a newly detected device
NewScannerInfo(name, device, now) ==
    [Name |-> name, Device |-> device, Connected |-> TRUE, Status |-> "connected",
     LastSeen |-> FormatRFC3339(now)]

\* mutant: the names are compared as they are
ToLowerNot(name) == name

\* strings.ToLower on the display names
ToLower(name) ==
    CASE name = "Beta scanner" -> "beta scanner"
      [] OTHER -> name

\* the display names and their lower-case forms in byte order ("B" < "a" < "b")
ByteOrder == <<"Beta scanner", "alpha scanner", "beta scanner">>

\* the operator < of Go on strings: the byte order
StringLess(a, b) ==
    \E i, j \in DOMAIN ByteOrder : i < j /\ ByteOrder[i] = a /\ ByteOrder[j] = b

\* sort.Slice by lower-case name: the orders of the entries S it can produce
SortedByName(reg, S) ==
    { s \in [1..Cardinality(S) -> S] :
        /\ \A a, b \in 1..Cardinality(S) : s[a] = s[b] => a = b
        /\ \A a, b \in 1..Cardinality(S) :
              a < b => ~StringLess(ToLower(reg[s[b]].Name), ToLower(reg[s[a]].Name)) }

\* range loops that visit nothing
NoEntries(reg) == {}

\* lines 90 and 144: the entries that the range loops over sm.scanners visit
RangeEntries(reg) == DOMAIN reg

\* an absence test that never holds
IsAbsentNever(device) == FALSE

\* line 145: the entry was not in the output of this cycle
IsAbsent(device) == device \notin currentScanners

\* NewScannerManager
NewScannerManager ==
    /\ scanners = << >>
    /\ mu = "free"
    /\ pollPc = "select"
    /\ currentScanners = {}
    /\ todo = {}
    /\ cur = NoDevice
    /\ cancelled = FALSE
    /\ stopChanClosed = FALSE
    /\ panicked = FALSE
    /\ rdPc = "idle"
    /\ rdList = << >>
    /\ rdCur = NoDevice
    /\ rdField = 0
    /\ obs = [Connected |-> FALSE, Status |-> ""]
    /\ enumerated = {}
    /\ preCycle = << >>
    /\ lastOutcome = "none"
    /\ prevAbsent = {}
    /\ inserted = {}
    /\ versions = {}

pollVars == <<scanners, mu, pollPc, currentScanners, todo, cur, enumerated,
              preCycle, lastOutcome, prevAbsent, inserted>>
stopVars == <<cancelled, stopChanClosed, panicked>>
readerVars == <<rdPc, rdList, rdCur, rdField, obs>>

\* mutant: detectScanners takes the lock before it runs scanimage -L
TickLocksFirst ==
    /\ ~panicked
    /\ pollPc = "select"
    /\ mu = "free"
    /\ mu' = "locked"
    /\ pollPc' = "exec"
    /\ UNCHANGED <<scanners, currentScanners, todo, cur, enumerated,
                   preCycle, lastOutcome, prevAbsent, inserted, versions>>
    /\ UNCHANGED <<stopVars, readerVars>>

\* StartMonitoring, lines 63-68: ticker.C is chosen and detectScanners starts
\* scanimage -L; select may choose it also when ctx.Done() is ready
Tick ==
    /\ ~panicked
    /\ pollPc = "select"
    /\ pollPc' = "exec"
    /\ UNCHANGED <<scanners, mu, currentScanners, todo, cur, enumerated,
                   preCycle, lastOutcome, prevAbsent, inserted, versions>>
    /\ UNCHANGED <<stopVars, readerVars>>

\* mutant: a select without the ctx.Done() case
MonitorIgnoresDone == FALSE

\* StartMonitoring, lines 64-66: ctx.Done() is chosen and the loop returns
MonitorStop ==
    /\ ~panicked
    /\ pollPc = "select"
    /\ cancelled
    /\ pollPc' = "stopped"
    /\ UNCHANGED <<scanners, mu, currentScanners, todo, cur, enumerated,
                   preCycle, lastOutcome, prevAbsent, inserted, versions>>
    /\ UNCHANGED <<stopVars, readerVars>>

\* detectScanners, lines 82-99: the command returns and the lock is taken
ExecReturn ==
    /\ ~panicked
    /\ pollPc = "exec"
    /\ mu = "free"
    /\ mu' = "locked"
    /\ preCycle' = scanners
    /\ prevAbsent' = IF lastOutcome = "ok" THEN DOMAIN scanners \ enumerated ELSE {}
    /\ enumerated' = {}
    /\ currentScanners' = {}
    /\ cur' = NoDevice
    /\ \/ /\ pollPc' = "markall"          \* err != nil
          /\ todo' = RangeEntries(scanners)
       \/ /\ pollPc' = "lines"
          /\ todo' = {}
    /\ UNCHANGED <<scanners, lastOutcome, inserted, versions>>
    /\ UNCHANGED <<stopVars, readerVars>>

\* lines 90-91: the next entry of the range loop, scanner.Connected = false
MarkAllConnected ==
    /\ ~panicked
    /\ pollPc = "markall"
    /\ cur = NoDevice
    /\ \E d \in todo :
          /\ scanners' = [scanners EXCEPT ![d].Connected = FALSE]
          /\ cur' = d
    /\ UNCHANGED <<mu, pollPc, currentScanners, todo, enumerated, preCycle,
                   lastOutcome, prevAbsent, inserted, versions>>
    /\ UNCHANGED <<stopVars, readerVars>>

\* line 92: scanner.Status = "disconnected"
MarkAllStatus ==
    /\ ~panicked
    /\ pollPc = "markall"
    /\ cur # NoDevice
    /\ scanners' = [scanners EXCEPT ![cur].Status = "disconnected"]
    /\ todo' = todo \ {cur}
    /\ cur' = NoDevice
    /\ UNCHANGED <<mu, pollPc, currentScanners, enumerated, preCycle,
                   lastOutcome, prevAbsent, inserted, versions>>
    /\ UNCHANGED <<stopVars, readerVars>>

\* lines 101-139: the next line of the output; for a known device
\* scanner.Connected = true, for a new one the insertion of its entry
ParseLine ==
    /\ ~panicked
    /\ pollPc = "lines"
    /\ cur = NoDevice
    /\ \E line \in OutputLines :
          IF line.kind # "device"
            THEN UNCHANGED <<clock, scanners, currentScanners, cur, enumerated, inserted>>
            ELSE /\ enumerated' = enumerated \cup {line.device}
                 /\ currentScanners' = currentScanners \cup {line.device}
                 /\ IF line.device \in DOMAIN scanners
                      THEN /\ scanners' = [scanners EXCEPT ![line.device].Connected = TRUE]
                           /\ cur' = line.device
                           /\ UNCHANGED <<clock, inserted>>
                      ELSE /\ \E now \in Now :
                                /\ clock' = now
                                /\ scanners' = [ d \in DOMAIN scanners \cup {line.device} |->
                                       IF d = line.device
                                         THEN NewScannerInfo(line.name, line.device, now)
                                         ELSE scanners[d] ]
                           /\ inserted' = inserted \cup {line.device}
                           /\ UNCHANGED cur
    /\ UNCHANGED <<mu, pollPc, todo, preCycle, lastOutcome, prevAbsent, versions>>
    /\ UNCHANGED <<stopVars, readerVars>>

\* line 128: scanner.Status = "connected"
WriteStatus ==
    /\ ~panicked
    /\ pollPc = "lines"
    /\ cur # NoDevice
    /\ scanners' = [scanners EXCEPT ![cur].Status = "connected"]
    /\ pollPc' = "lastseen"
    /\ UNCHANGED <<mu, currentScanners, todo, cur, enumerated, preCycle,
                   lastOutcome, prevAbsent, inserted, versions>>
    /\ UNCHANGED <<stopVars, readerVars>>

\* line 129: scanner.LastSeen = time.Now().Format(time.RFC3339)
WriteLastSeen ==
    /\ ~panicked
    /\ pollPc = "lastseen"
    /\ \E now \in Now :
          /\ clock' = now
          /\ scanners' = [scanners EXCEPT ![cur].LastSeen = FormatRFC3339(now)]
    /\ cur' = NoDevice
    /\ pollPc' = "lines"
    /\ UNCHANGED <<mu, currentScanners, todo, enumerated, preCycle,
                   lastOutcome, prevAbsent, inserted, versions>>
    /\ UNCHANGED <<stopVars, readerVars>>

\* line 141: the output has no more lines
ParseEnd ==
    /\ ~panicked
    /\ pollPc = "lines"
    /\ cur = NoDevice
    /\ pollPc' = "absent"
    /\ todo' = RangeEntries(scanners)
    /\ UNCHANGED <<scanners, mu, currentScanners, cur, enumerated, preCycle,
                   lastOutcome, prevAbsent, inserted, versions>>
    /\ UNCHANGED <<stopVars, readerVars>>

\* a loop that deletes the absent entries instead of marking them
AbsentNextDelete ==
    /\ ~panicked
    /\ pollPc = "absent"
    /\ cur = NoDevice
    /\ \E d \in todo :
          /\ todo' = todo \ {d}
          /\ scanners' = IF IsAbsent(d)
                            THEN [ x \in DOMAIN scanners \ {d} |-> scanners[x] ]
                            ELSE scanners
    /\ UNCHANGED <<mu, pollPc, currentScanners, cur, enumerated, preCycle,
                   lastOutcome, prevAbsent, inserted, versions>>
    /\ UNCHANGED <<stopVars, readerVars>>

\* lines 144-146: the next entry of the range loop; scanner.Connected = false
\* if it is absent from the output
AbsentNext ==
    /\ ~panicked
    /\ pollPc = "absent"
    /\ cur = NoDevice
    /\ \E d \in todo :
          IF IsAbsent(d)
            THEN /\ scanners' = [scanners EXCEPT ![d].Connected = FALSE]
                 /\ cur' = d
                 /\ UNCHANGED todo
            ELSE /\ todo' = todo \ {d}
                 /\ UNCHANGED <<scanners, cur>>
    /\ UNCHANGED <<mu, pollPc, currentScanners, enumerated, preCycle,
                   lastOutcome, prevAbsent, inserted, versions>>
    /\ UNCHANGED <<stopVars, readerVars>>

\* mutant: the absent entry gets a new LastSeen too
AbsentStatusStampsLastSeen ==
    /\ ~panicked
    /\ pollPc = "absent"
    /\ cur # NoDevice
    /\ scanners' = [scanners EXCEPT ![cur].Status = "disconnected",
                                    ![cur].LastSeen = FormatRFC3339(clock)]
    /\ todo' = todo \ {cur}
    /\ cur' = NoDevice
    /\ UNCHANGED <<mu, pollPc, currentScanners, enumerated, preCycle,
                   lastOutcome, prevAbsent, inserted, versions>>
    /\ UNCHANGED <<stopVars, readerVars>>

\* line 147: scanner.Status = "disconnected"
AbsentStatus ==
    /\ ~panicked
    /\ pollPc = "absent"
    /\ cur # NoDevice
    /\ scanners' = [scanners EXCEPT ![cur].Status = "disconnected"]
    /\ todo' = todo \ {cur}
    /\ cur' = NoDevice
    /\ UNCHANGED <<mu, pollPc, currentScanners, enumerated, preCycle,
                   lastOutcome, prevAbsent, inserted, versions>>
    /\ UNCHANGED <<stopVars, readerVars>>

\* lines 85, 94, 150: detectScanners returns, the deferred Unlock runs, and
\* StartMonitoring is back at its select
CycleEnd ==
    /\ ~panicked
    /\ pollPc \in {"markall", "absent"}
    /\ cur = NoDevice
    /\ todo = {}
    /\ mu' = "free"
    /\ lastOutcome' = IF pollPc = "markall" THEN "failed" ELSE "ok"
    /\ pollPc' = "select"
    /\ versions' = IF rdField \in {1, 2}
                     THEN versions \cup {[Connected |-> scanners[rdCur].Connected,
                                          Status |-> scanners[rdCur].Status,
                                          LastSeen |-> scanners[rdCur].LastSeen]}
                     ELSE versions
    /\ UNCHANGED <<scanners, currentScanners, todo, cur, enumerated, preCycle,
                   prevAbsent, inserted>>
    /\ UNCHANGED <<stopVars, readerVars>>

\* Stop, lines 73-77: cancel() and close(sm.stopChan); closing a closed
\* channel is a runtime panic
Stop ==
    /\ ~panicked
    /\ cancelled' = TRUE
    /\ IF stopChanClosed
         THEN panicked' = TRUE /\ UNCHANGED stopChanClosed
         ELSE stopChanClosed' = TRUE /\ UNCHANGED panicked
    /\ UNCHANGED <<pollVars, readerVars, versions>>

\* GetScanners, lines 152-167: under the read lock, the pointers of all
\* entries, sorted by name
GetScanners ==
    /\ ~panicked
    /\ rdPc = "idle"
    /\ mu = "free"
    /\ \E s \in SortedByName(scanners, DOMAIN scanners) : rdList' = s
    /\ rdPc' = "holding"
    /\ UNCHANGED <<rdCur, rdField, obs, versions>>
    /\ UNCHANGED <<pollVars, stopVars>>

\* GetConnectedScanners, lines 169-186: the same for the connected entries
GetConnectedScanners ==
    /\ ~panicked
    /\ rdPc = "idle"
    /\ mu = "free"
    /\ \E s \in SortedByName(scanners, { d \in DOMAIN scanners : scanners[d].Connected }) :
          rdList' = s
    /\ rdPc' = "holding"
    /\ UNCHANGED <<rdCur, rdField, obs, versions>>
    /\ UNCHANGED <<pollVars, stopVars>>

\* the value of an entry that its last finished update left
Committed(d) ==
    LET r == IF mu = "free" THEN scanners[d] ELSE preCycle[d]
    IN [Connected |-> r.Connected, Status |-> r.Status, LastSeen |-> r.LastSeen]

\* the caller (getScanners, c.JSON) reads the fields through the pointers it
\* holds, without the lock. The reading of one entry is followed: from here on
\* rdList holds that entry alone. It reads Connected,
ReadConnected ==
    /\ ~panicked
    /\ rdPc = "holding"
    /\ rdField = 0
    /\ \E k \in DOMAIN rdList :
          /\ rdCur' = rdList[k]
          /\ rdList' = <<rdList[k]>>
          /\ obs' = [obs EXCEPT !.Connected = scanners[rdList[k]].Connected]
          /\ versions' = {Committed(rdList[k])}
    /\ rdField' = 1
    /\ UNCHANGED rdPc
    /\ UNCHANGED <<pollVars, stopVars>>

\* then its Status,
ReadStatus ==
    /\ ~panicked
    /\ rdPc = "holding"
    /\ rdField = 1
    /\ obs' = [obs EXCEPT !.Status = scanners[rdCur].Status]
    /\ rdField' = 2
    /\ UNCHANGED <<rdPc, rdList, rdCur, versions>>
    /\ UNCHANGED <<pollVars, stopVars>>

\* then its LastSeen, which ends the reading of this entry
ReadLastSeen ==
    /\ ~panicked
    /\ rdPc = "holding"
    /\ rdField = 2
    /\ obs' = [Connected |-> FALSE, Status |-> ""]
    /\ rdCur' = NoDevice
    /\ rdField' = 0
    /\ versions' = {}
    /\ UNCHANGED <<rdPc, rdList>>
    /\ UNCHANGED <<pollVars, stopVars>>

\* the handler returns and drops the slice
Release ==
    /\ ~panicked
    /\ rdPc = "holding"
    /\ rdPc' = "idle"
    /\ rdList' = << >>
    /\ rdCur' = NoDevice
    /\ rdField' = 0
    /\ obs' = [Connected |-> FALSE, Status |-> ""]
    /\ versions' = {}
    /\ UNCHANGED <<pollVars, stopVars>>

----------------------------------------------------------------------------
(* ScannerManager.ScanDocument *)

\* config.TempFilesDir
TempFilesDir == "/tmp/DICOMScanStation/tempfiles"

\* options == nil
NoOptions == [nil |-> TRUE]

\* the resolutions a request can carry; 0 is an absent field of the JSON body
Resolutions == {0, 150, 300, 600, 1200}

\* the *ScanOptions a request can carry
OptionValues ==
    [MultiPage : BOOLEAN, Duplex : BOOLEAN, Color : BOOLEAN, Resolution : Resolutions]
        \cup {NoOptions}

\* lines 201-208: the defaults, set when options == nil
DefaultOptions ==
    [MultiPage |-> TRUE, Duplex |-> FALSE, Color |-> TRUE, Resolution |-> 300]

\* the device addresses of a request: the known ones and one never enumerated
RequestDevices == Devices \cup {"test:0"}

\* line 286: maxPages
maxPages == 50

\* time.Now().Unix() as fmt.Sprintf("%d", ...): the seconds of FormatTimestamp
UnixTime(t) == "17357328" \o Digit((t \div 10) % 10) \o Digit(t % 10)

\* line 212: baseFilename
BaseFilename(now) == "scan_" \o UnixTime(now)

\* the file of the temp directory that a path TempFilesDir/<name>.jpg names
ScanFile(name) == [base |-> name, ext |-> "jpg"]

\* lines 289, 308: fmt.Sprintf("%s_%d.jpg", baseFilename, pageNum)
BatchFile(base, n) == ScanFile(base \o "_" \o Itoa(n))

\* a single page scan under the name of the first page of a batch
SingleFileNumbered(base) == ScanFile(base \o "_1")

\* line 346: fmt.Sprintf("%s.jpg", baseFilename)
SingleFile(base) == ScanFile(base)

\* lines 307-313: the naming patterns tried for a page of a duplex job
DuplexPatterns(base, n) ==
    << BatchFile(base, n),
       ScanFile(base \o "_front_" \o Itoa(n)),
       ScanFile(base \o "_back_" \o Itoa(n)),
       ScanFile(base \o "_" \o Itoa(n) \o "_front"),
       ScanFile(base \o "_" \o Itoa(n) \o "_back") >>

\* fmt.Sprintf("%s.%s") of a file record: the name ScanDocument returns
FileName(f) == f.base \o "." \o f.ext

\* mutant: the source selection is put before the output form
BuildArgsSourceFirst(device, options, base) ==
    <<"-d", device, "--format=jpeg", "--resolution", Itoa(options.Resolution)>>
    \o (IF options.Color THEN <<"--mode", "Color">> ELSE <<"--mode", "Gray">>)
    \o (IF options.Duplex THEN <<"--source", "ADF Duplex">>
                          ELSE <<"--source", "ADF Front">>)
    \o (IF options.MultiPage
          THEN <<"--batch-start=1", "--batch-increment=1",
                 "--batch=" \o TempFilesDir \o "/" \o base \o "_%d.jpg">>
          ELSE <<"-o", TempFilesDir \o "/" \o base \o ".jpg">>)

\* lines 216-249: the argument list of scanimage
BuildArgs(device, options, base) ==
    <<"-d", device, "--format=jpeg", "--resolution", Itoa(options.Resolution)>>
    \o (IF options.Color THEN <<"--mode", "Color">> ELSE <<"--mode", "Gray">>)
    \o (IF options.MultiPage
          THEN <<"--batch-start=1", "--batch-increment=1",
                 "--batch=" \o TempFilesDir \o "/" \o base \o "_%d.jpg">>
          ELSE <<"-o", TempFilesDir \o "/" \o base \o ".jpg">>)
    \o (IF options.Duplex THEN <<"--source", "ADF Duplex">>
                          ELSE <<"--source", "ADF Front">>)

RECURSIVE JoinArgs(_)
\* cmd.String(): the program and its arguments, joined by spaces
JoinArgs(args) ==
    IF Len(args) = 0 THEN "" ELSE " " \o Head(args) \o JoinArgs(Tail(args))

CmdString(args) == "scanimage" \o JoinArgs(args)

\* how cmd.Run() can fail (line 269): a non-zero exit, or the process killed
\* when the context's deadline (config.ScannerTimeout) passes; with or
\* without text on stderr
ScanFailures ==
    [err : {"exit status 1", "signal: killed"},
     stderr : {"", "scanimage: open of device failed: Invalid argument"}]

\* an error that drops what the tool wrote to stderr
ScanFailedErrorOfExit(e, args) == "scan failed: " \o e.err \o " \n " \o CmdString(args)

\* lines 270-275: the error of a failed run
ScanFailedError(e, args) ==
    LET errorMsg == IF e.stderr = "" THEN e.err ELSE e.stderr
    IN "scan failed: " \o errorMsg \o " \n " \o CmdString(args)

\* the pages 1..n of a batch
BatchPages(base, n) == { BatchFile(base, k) : k \in 1..n }

\* what scanimage can have written when it exits: for a batch, the pages
\* 1..n (n up to MaxWritten, or maxPages and one more), with or without a
\* further page after a gap, or files under the front/back names of a duplex
\* driver; for -o, the one file or nothing
ToolWrites(options, base) ==
    IF options.MultiPage
      THEN { BatchPages(base, n) : n \in 0..MaxWritten }
           \cup { BatchPages(base, n) \cup {BatchFile(base, n + 2)} : n \in 0..MaxWritten }
           \cup { BatchPages(base, maxPages), BatchPages(base, maxPages + 1) }
           \cup { { DuplexPatterns(base, 1)[2], DuplexPatterns(base, 1)[3],
                    DuplexPatterns(base, 2)[2] },
                  { DuplexPatterns(base, 1)[4], DuplexPatterns(base, 1)[5],
                    DuplexPatterns(base, 3)[4] } }
      ELSE { {}, {SingleFile(base)} }

\* the display name under which a device is registered
DeviceName(d) == IF d = "fujitsu:fi-7030:211822" THEN "alpha scanner" ELSE "Beta scanner"

\* the registries that the poll cycles leave: any of the devices, each
\* connected or disconnected
Registries ==
    { [ d \in DOMAIN c |->
          [NewScannerInfo(DeviceName(d), d, 0) EXCEPT
              !.Connected = c[d],
              !.Status = IF c[d] THEN "connected" ELSE "disconnected"] ] :
      c \in UNION { [D -> BOOLEAN] : D \in SUBSET Devices } }

\* the return values of ScanDocument
ScanError(msg) == [filenames |-> <<>>, err |-> msg]
ScanOk(filenames) == [filenames |-> filenames, err |-> ""]

\* the locals of SendToPacs
expLocals == <<expPc, runs, studyID, studyInstanceUID, seriesInstanceUID, jpgFiles,
               idx, dcmFile, progress, returned, calls, issuedUIDs>>

\* no ScanDocument call yet
ScanIdle ==
    /\ scPc = "idle"
    /\ scDevice = NoDevice
    /\ scOptions = NoOptions
    /\ scScanner = NoDevice
    /\ scBase = ""
    /\ scArgs = <<>>
    /\ scPageNum = 1
    /\ scFilenames = <<>>
    /\ scResult = ScanOk(<<>>)
    /\ scLog = <<>>

\* lines 188-191: a call; the entry is looked up under the read lock
ScanStart ==
    /\ scPc = "idle"
    /\ mu = "free"
    /\ \E device \in RequestDevices, options \in OptionValues :
          /\ scDevice' = device
          /\ scOptions' = options
          /\ scScanner' = IF device \in DOMAIN scanners THEN device ELSE NoDevice
    /\ scPc' = "check"
    /\ UNCHANGED <<scBase, scArgs, scPageNum, scFilenames, scResult, scLog>>

\* a check of exists alone
ScanCheckExists ==
    /\ scPc = "check"
    /\ IF scScanner = NoDevice
         THEN /\ scResult' = ScanError("scanner device '" \o scDevice \o "' not found")
              /\ scPc' = "done"
         ELSE /\ scPc' = "build"
              /\ UNCHANGED scResult
    /\ UNCHANGED <<scDevice, scOptions, scScanner, scBase, scArgs, scPageNum,
                   scFilenames, scLog>>

\* lines 193-198: exists and scanner.Connected, read after RUnlock
ScanCheck ==
    /\ scPc = "check"
    /\ IF scScanner = NoDevice
         THEN /\ scResult' = ScanError("scanner device '" \o scDevice \o "' not found")
              /\ scPc' = "done"
         ELSE IF ~scanners[scScanner].Connected
           THEN /\ scResult' = ScanError("scanner '" \o scanners[scScanner].Name
                                             \o "' is not connected")
                /\ scPc' = "done"
           ELSE /\ scPc' = "build"
                /\ UNCHANGED scResult
    /\ UNCHANGED <<scDevice, scOptions, scScanner, scBase, scArgs, scPageNum,
                   scFilenames, scLog>>

\* lines 200-249: the defaults, the base filename and the argument list
ScanBuild ==
    /\ scPc = "build"
    /\ scOptions' = IF scOptions = NoOptions THEN DefaultOptions ELSE scOptions
    /\ \E now \in Now :
          /\ clock' = now
          /\ scBase' = BaseFilename(now)
    /\ scArgs' = BuildArgs(scDevice, scOptions', scBase')
    /\ scPc' = "run"
    /\ UNCHANGED <<scDevice, scScanner, scPageNum, scFilenames, scResult, scLog>>

\* lines 254-279: scanimage runs under the context's deadline; cmd.Run()
\* returns its failure or, after it exited with status 0, the settle delay
\* passes. A run that fails may have written its first page.
ScanRun ==
    /\ scPc = "run"
    /\ \/ \E e \in ScanFailures, w \in {{}, {BatchFile(scBase, 1)}} :
            /\ scLog' = Append(scLog, [op |-> "run", args |-> scArgs,
                                       err |-> e.err, stderr |-> e.stderr])
            /\ storage' = storage \cup w
            /\ scResult' = ScanError(ScanFailedError(e, scArgs))
            /\ scPc' = "done"
       \/ \E w \in ToolWrites(scOptions, scBase) :
            /\ scLog' = Append(scLog, [op |-> "run", args |-> scArgs,
                                       err |-> "", stderr |-> ""])
            /\ storage' = storage \cup w
            /\ scPc' = IF scOptions.MultiPage THEN "probe" ELSE "single"
            /\ UNCHANGED scResult
    /\ UNCHANGED <<scDevice, scOptions, scScanner, scBase, scArgs, scPageNum, scFilenames>>

\* a probe that takes every file to exist
ProbeNeverStops(f, store) == FALSE

\* line 292: os.IsNotExist(err) of os.Stat(fullPath)
ProbeStops(f, store) == f \notin store

\* lines 288-299: one round of the loop over the batch files
ProbeNext ==
    /\ scPc = "probe"
    /\ IF scPageNum <= maxPages
         THEN LET f == BatchFile(scBase, scPageNum) IN
              /\ scLog' = Append(scLog, [op |-> "stat", file |-> f])
              /\ IF ProbeStops(f, storage)
                   THEN /\ scPc' = "probed"
                        /\ UNCHANGED <<scPageNum, scFilenames>>
                   ELSE /\ scFilenames' = Append(scFilenames, FileName(f))
                        /\ scPageNum' = scPageNum + 1
                        /\ UNCHANGED scPc
         ELSE /\ scPc' = "probed"
              /\ UNCHANGED <<scPageNum, scFilenames, scLog>>
    /\ UNCHANGED <<scDevice, scOptions, scScanner, scBase, scArgs, scResult>>

\* lines 302-304: the front/back names are tried for a duplex job without files
ProbeEnd ==
    /\ scPc = "probed"
    /\ IF scOptions.Duplex /\ Len(scFilenames) = 0
         THEN scPageNum' = 1 /\ scPc' = "duplex"
         ELSE scPc' = "return" /\ UNCHANGED scPageNum
    /\ UNCHANGED <<scDevice, scOptions, scScanner, scBase, scArgs, scFilenames,
                   scResult, scLog>>

RECURSIVE StatLog(_)
\* the os.Stat calls for a sequence of files
StatLog(files) ==
    IF Len(files) = 0 THEN <<>>
    ELSE <<[op |-> "stat", file |-> Head(files)]>> \o StatLog(Tail(files))

RECURSIVE FoundNamesFirst(_, _)
\* mutant: the loop over the patterns ends at the first file that exists
FoundNamesFirst(files, store) ==
    IF Len(files) = 0 THEN <<>>
    ELSE IF Head(files) \in store THEN <<FileName(Head(files))>>
    ELSE FoundNamesFirst(Tail(files), store)

RECURSIVE FoundNames(_, _)
\* lines 316-323: the names of the files that exist, in the order of the patterns
FoundNames(files, store) ==
    IF Len(files) = 0 THEN <<>>
    ELSE (IF Head(files) \in store THEN <<FileName(Head(files))>> ELSE <<>>)
         \o FoundNames(Tail(files), store)

\* lines 305-329: one round of the loop over the front/back names
DuplexNext ==
    /\ scPc = "duplex"
    /\ IF scPageNum <= maxPages
         THEN LET patterns == DuplexPatterns(scBase, scPageNum)
                  found == FoundNames(patterns, storage)
              IN /\ scLog' = scLog \o StatLog(patterns)
                 /\ scFilenames' = scFilenames \o found
                 /\ IF Len(found) = 0
                      THEN scPc' = "return" /\ UNCHANGED scPageNum
                      ELSE scPageNum' = scPageNum + 1 /\ UNCHANGED scPc
         ELSE /\ scPc' = "return"
              /\ UNCHANGED <<scPageNum, scFilenames, scLog>>
    /\ UNCHANGED <<scDevice, scOptions, scScanner, scBase, scArgs, scResult>>

\* lines 345-353: the output path of a single page scan
SingleStat ==
    /\ scPc = "single"
    /\ LET f == SingleFile(scBase) IN
       /\ scLog' = Append(scLog, [op |-> "stat", file |-> f])
       /\ IF f \notin storage
            THEN /\ scResult' = ScanError("scan completed but file was not created")
                 /\ scPc' = "done"
                 /\ UNCHANGED scFilenames
            ELSE /\ scFilenames' = Append(scFilenames, FileName(f))
                 /\ scPc' = "return"
                 /\ UNCHANGED scResult
    /\ UNCHANGED <<scDevice, scOptions, scScanner, scBase, scArgs, scPageNum>>

\* a return without the test for an empty list
ReturnValueUnchecked(filenames) == ScanOk(filenames)

\* lines 355-360: what ScanDocument returns after the discovery of the files
ReturnValue(filenames) ==
    IF Len(filenames) = 0
      THEN ScanError("scan completed but no files were created")
      ELSE ScanOk(filenames)

\* lines 355-360
ScanReturn ==
    /\ scPc = "return"
    /\ scResult' = ReturnValue(scFilenames)
    /\ scPc' = "done"
    /\ UNCHANGED <<scDevice, scOptions, scScanner, scBase, scArgs, scPageNum,
                   scFilenames, scLog>>

----------------------------------------------------------------------------
(* DicomService.SearchPatients *)

\* the parameters of a call
SearchTerms == {"Smith"}
SearchTypes == {"name", "birthdate", "id"}

\* the patterns in another order: substring, prefix, suffix
SearchPatternsSubstringFirst(searchTerm, searchType) ==
    IF searchType = "birthdate"
      THEN <<searchTerm>>
      ELSE <<"*" \o searchTerm \o "*", searchTerm \o "*", "*" \o searchTerm>>

\* lines 43-53: searchPatterns
SearchPatterns(searchTerm, searchType) ==
    IF searchType = "birthdate"
      THEN <<searchTerm>>
      ELSE <<searchTerm \o "*", "*" \o searchTerm \o "*", "*" \o searchTerm>>

\* lines 76 and 90: the -k argument that carries the pattern
QueryKey(searchType, pattern) ==
    IF searchType = "birthdate" THEN "PatientBirthDate=" \o pattern
                                ELSE "PatientName=" \o pattern

\* A line of the findscu output, after strings.TrimSpace, by what the parser
\* looks at: label is the first of the texts of lines 186-234 that the line
\* contains ("" for an empty line, "other" for none of them, Marker for a line
\* of the association failure); brackets says whether "[" and "]" both occur
\* ("ok": "[" first, "reversed": "]" first) or one is missing ("none");
\* value is the text between them.
Marker == "Association Request Failed"

Line(label, brackets, value) == [label |-> label, brackets |-> brackets, value |-> value]

\* the text of a line, as findscu -v prints it
LineText(l) ==
    CASE l.label = "" -> ""
      [] l.label = "other" -> "I: Releasing Association"
      [] l.label = Marker -> "F: " \o Marker \o ": 0006:031b Failed to establish association"
      [] l.label = "Find Response:" -> "I: Find Response: 1 (Pending)"
      [] OTHER -> (CASE l.brackets = "ok" -> "I: [" \o l.value \o "] # " \o l.label
                     [] l.brackets = "reversed" -> "I: ]" \o l.value \o "[ # " \o l.label
                     [] OTHER -> "I: # " \o l.label)

RECURSIVE OutputText(_)
\* strings.TrimSpace(outputStr): the lines, joined by newlines
OutputText(lines) ==
    IF Len(lines) = 0 THEN ""
    ELSE IF Len(lines) = 1 THEN LineText(lines[1])
    ELSE LineText(Head(lines)) \o "\n" \o OutputText(Tail(lines))

\* line 117: strings.Contains(outputStr, "Association Request Failed")
HasMarker(lines) == \E k \in DOMAIN lines : lines[k].label = Marker

\* &PatientInfo{}
EmptyPatient ==
    [PatientID |-> "", Name |-> "", BirthDate |-> "", Gender |-> "", StudyDate |-> ""]

\* strings.TrimSpace on the bracketed values
TrimSpace(value) ==
    CASE value = " " -> ""
      [] value = "Rubo DEMO " -> "Rubo DEMO"
      [] OTHER -> value

\* mutant: the wildcard is taken for a name
NameAcceptedAny(name) == name # ""

\* line 206: the wildcard and the empty name are skipped
NameAccepted(name) == name # "*" /\ name # ""

\* lines 186-246: one line of the loop. st is [patients, current, isNil,
\* inResponse, fault]: isNil says that currentPatient == nil, fault that the
\* slice expression line[idx+1 : endIdx] has faulted, which it does when the
\* "]" comes before the "[".
ParseLineStep(st, l) ==
    IF st.fault THEN st
    ELSE IF l.label = "Find Response:"
      THEN [st EXCEPT
              !.patients = IF ~st.isNil /\ st.current.Name # ""
                             THEN Append(st.patients, st.current) ELSE st.patients,
              !.current = EmptyPatient,
              !.isNil = FALSE,
              !.inResponse = TRUE]
    ELSE IF ~st.inResponse THEN st
    ELSE IF l.label \in {"PatientName", "PatientID", "PatientBirthDate", "PatientSex",
                         "StudyDate"}
      THEN IF l.brackets = "reversed" THEN [st EXCEPT !.fault = TRUE]
           ELSE IF l.brackets = "none" THEN st
           ELSE CASE l.label = "PatientName" ->
                       IF NameAccepted(TrimSpace(l.value))
                         THEN [st EXCEPT !.current.Name = TrimSpace(l.value)] ELSE st
                  [] l.label = "PatientID" ->
                       [st EXCEPT !.current.PatientID = TrimSpace(l.value)]
                  [] l.label = "PatientBirthDate" ->
                       [st EXCEPT !.current.BirthDate = TrimSpace(l.value)]
                  [] l.label = "PatientSex" ->
                       [st EXCEPT !.current.Gender = TrimSpace(l.value)]
                  [] OTHER -> [st EXCEPT !.current.StudyDate = TrimSpace(l.value)]
    ELSE IF l.label = "" THEN [st EXCEPT !.inResponse = FALSE]
    ELSE st

RECURSIVE ParseLines(_, _)
ParseLines(st, lines) ==
    IF Len(lines) = 0 THEN st
    ELSE ParseLines(ParseLineStep(st, Head(lines)), Tail(lines))

\* parseFindscuOutput: [patients, fault]
parseFindscuOutput(lines) ==
    LET st == ParseLines([patients |-> <<>>, current |-> EmptyPatient, isNil |-> TRUE,
                          inResponse |-> FALSE, fault |-> FALSE], lines)
    IN [patients |-> IF ~st.isNil /\ st.current.Name # ""
                       THEN Append(st.patients, st.current) ELSE st.patients,
        fault |-> st.fault]

\* the patients of the directory
Patient(id, name) ==
    [PatientID |-> id, Name |-> name, BirthDate |-> "19800101", Gender |-> "M",
     StudyDate |-> ""]

\* the block of lines that findscu prints for a response
Block(p) ==
    << Line("Find Response:", "none", ""),
       Line("PatientName", "ok", p.Name),
       Line("PatientID", IF p.PatientID = "" THEN "none" ELSE "ok", p.PatientID),
       Line("PatientBirthDate", "ok", p.BirthDate),
       Line("PatientSex", "ok", p.Gender),
       Line("", "none", "") >>

P1 == Patient("P1", "Smith^John")
P1a == Patient("P1", "Smith^Jon")
P2 == Patient("P2", "Smithers^Ann")
Anonymous == Patient("", "Smith^Unknown")

\* response texts without the marker of an association failure
PlainOutputs ==
    { <<>>, <<Line("other", "none", "")>>,
      Block(P1), Block(P2), Block(P1) \o Block(P2), Block(P2) \o Block(P1a),
      Block(P1) \o Block(P1a), Block(Anonymous) }

\* response texts with the marker
MarkerOutputs ==
    { <<Line(Marker, "none", "")>>, Block(P1) \o <<Line(Marker, "none", "")>> }

\* how cmd.CombinedOutput() of findscu can return (line 109): err is nil
\* (""), a non-zero exit status, or the kill at the deadline of the context
FindscuResults ==
    [err : {""}, output : PlainOutputs \cup MarkerOutputs]
        \cup [err : {"exit status 1", "signal: killed"},
              output : {<<>>, Block(P1)} \cup MarkerOutputs]

RECURSIVE AddAll(_, _, _)
\* a merge without the test of seenPatients
AddAll(all, seen, patients) ==
    IF Len(patients) = 0 THEN [all |-> all, seen |-> seen]
    ELSE AddAll(Append(all, Head(patients)), seen \cup {Head(patients).PatientID},
                Tail(patients))

RECURSIVE AddUnique(_, _, _)
\* lines 136-141: the patients not yet seen are appended; [all, seen]
AddUnique(all, seen, patients) ==
    IF Len(patients) = 0 THEN [all |-> all, seen |-> seen]
    ELSE LET p == Head(patients) IN
         IF p.PatientID # "" /\ p.PatientID \notin seen
           THEN AddUnique(Append(all, p), seen \cup {p.PatientID}, Tail(patients))
           ELSE AddUnique(all, seen, Tail(patients))

\* the return values of SearchPatients
SearchError(msg) == [patients |-> <<>>, err |-> msg]
SearchOk(patients) == [patients |-> patients, err |-> ""]

\* line 167
UnableToConnect == "unable to connect to DICOM server at localhost:11112"

\* no SearchPatients call yet
SearchIdle ==
    /\ srPc = "idle"
    /\ srTerm = ""
    /\ srType = ""
    /\ srPatterns = <<>>
    /\ srNext = 1
    /\ allPatients = <<>>
    /\ seenPatients = {}
    /\ srResult = SearchOk(<<>>)
    /\ srLog = <<>>

\* lines 38-59: a call
SearchStart ==
    /\ srPc = "idle"
    /\ \E searchTerm \in SearchTerms, searchType \in SearchTypes :
          /\ srTerm' = searchTerm
          /\ srType' = searchType
          /\ srPatterns' = SearchPatterns(searchTerm, searchType)
    /\ srNext' = 1
    /\ allPatients' = <<>>
    /\ seenPatients' = {}
    /\ srPc' = "patterns"
    /\ UNCHANGED <<srResult, srLog>>

\* lines 61-142: one round of the loop over the patterns: findscu runs under
\* its 30 s deadline and its output is handled
QueryNext ==
    /\ srPc = "patterns"
    /\ srNext <= Len(srPatterns)
    /\ \E r \in FindscuResults :
          /\ srLog' = Append(srLog, [op |-> "query",
                                     key |-> QueryKey(srType, srPatterns[srNext]),
                                     err |-> r.err, output |-> r.output])
          /\ IF r.err # ""
               THEN IF HasMarker(r.output)
                      THEN /\ srResult' = SearchError("DICOM error: " \o OutputText(r.output))
                           /\ srPc' = "done"
                           /\ UNCHANGED <<srNext, allPatients, seenPatients>>
                      ELSE /\ srNext' = srNext + 1
                           /\ UNCHANGED <<srPc, srResult, allPatients, seenPatients>>
               ELSE LET parsed == parseFindscuOutput(r.output)
                        merged == AddUnique(allPatients, seenPatients, parsed.patients)
                    IN IF parsed.fault
                         THEN /\ srPc' = "panic"
                              /\ UNCHANGED <<srNext, srResult, allPatients, seenPatients>>
                         ELSE /\ allPatients' = merged.all
                              /\ seenPatients' = merged.seen
                              /\ srNext' = srNext + 1
                              /\ UNCHANGED <<srPc, srResult>>
    /\ UNCHANGED <<srTerm, srType, srPatterns>>

\* a connection test after every search
ConnectionTestAlways(all) == TRUE

\* line 145: len(allPatients) == 0
ConnectionTestNeeded(all) == Len(all) = 0

\* lines 145 and 171-172: the loop is over; the patients found are returned,
\* or the connection is tested
PatternsEnd ==
    /\ srPc = "patterns"
    /\ srNext > Len(srPatterns)
    /\ IF ConnectionTestNeeded(allPatients)
         THEN srPc' = "probe" /\ UNCHANGED srResult
         ELSE srPc' = "done" /\ srResult' = SearchOk(allPatients)
    /\ UNCHANGED <<srTerm, srType, srPatterns, srNext, allPatients, seenPatients, srLog>>

\* lines 148-172: the connection test, findscu with PatientName=* under its
\* 10 s deadline
ConnectionTest ==
    /\ srPc = "probe"
    /\ \E testErr \in {"", "exit status 1", "signal: killed"} :
          /\ srLog' = Append(srLog, [op |-> "probe", key |-> "PatientName=*",
                                     err |-> testErr, output |-> <<>>])
          /\ srResult' = IF testErr # "" THEN SearchError(UnableToConnect)
                                         ELSE SearchOk(allPatients)
    /\ srPc' = "done"
    /\ UNCHANGED <<srTerm, srType, srPatterns, srNext, allPatients, seenPatients>>

----------------------------------------------------------------------------
(* Router.startScan *)

MaxRequests == 2

\* the POST /api/scan requests in flight
Requests == 1..MaxRequests

\* no request yet
RequestsIdle ==
    /\ rqPc = [ r \in Requests |-> "idle" ]
    /\ rqLog = <<>>

\* config.AllowedExtensions
AllowedExtensions == {"jpg", "jpeg", "png", "tiff", "tif"}

\* Router.getFileList: the files of the temp directory with an allowed extension
getFileList == { f \in storage : f.ext \in AllowedExtensions }

\* startScan, lines 545-557: the request is bound and the temp directory is
\* listed; with files in it the answer is 409, and if the directory cannot be
\* read, 500
StartScanCheck(r) ==
    /\ rqPc[r] = "idle"
    /\ \/ rqPc' = [rqPc EXCEPT ![r] = IF getFileList # {} THEN "409" ELSE "scan"]
       \/ rqPc' = [rqPc EXCEPT ![r] = "500"]
    /\ UNCHANGED <<clock, storage, rqLog>>

\* startScan, line 559, and ScanDocument, lines 188-262, with options == nil:
\* the device is looked up, the base filename is made and scanimage is started
StartScanTool(r) ==
    /\ rqPc[r] = "scan"
    /\ mu = "free"
    /\ \E device \in RequestDevices :
          IF device \notin DOMAIN scanners \/ ~scanners[device].Connected
            THEN /\ rqPc' = [rqPc EXCEPT ![r] = "500"]
                 /\ UNCHANGED <<clock, rqLog>>
            ELSE \E now \in Now :
                   /\ clock' = now
                   /\ rqLog' = Append(rqLog, [request |-> r, base |-> BaseFilename(now),
                                              files |-> getFileList])
                   /\ rqPc' = [rqPc EXCEPT ![r] = "scanimage"]
    /\ UNCHANGED storage

\* the base filename of the ScanDocument call of request r
RequestBase(r) ==
    LET j == CHOOSE n \in DOMAIN rqLog : rqLog[n].request = r IN rqLog[j].base

\* ScanDocument, lines 264-361, and startScan, lines 560-569: scanimage exits,
\* having written its files, and the request is answered with the error or
\* with the files found
StartScanAnswer(r) ==
    /\ rqPc[r] = "scanimage"
    /\ \/ \E w \in {{}, {BatchFile(RequestBase(r), 1)}} :
            /\ storage' = storage \cup w
            /\ rqPc' = [rqPc EXCEPT ![r] = "500"]
       \/ \E w \in ToolWrites(DefaultOptions, RequestBase(r)) :
            /\ storage' = storage \cup w
            /\ rqPc' = [rqPc EXCEPT ![r] =
                          IF BatchFile(RequestBase(r), 1) \in storage' THEN "200" ELSE "500"]
    /\ UNCHANGED <<clock, rqLog>>

----------------------------------------------------------------------------
(* Calls of the pure functions *)

\* no call
CallIdle ==
    /\ pfPc = "input"
    /\ pfIn = <<>>
    /\ pfOut = <<>>

MaxLines == 4

\* the lines of a findscu output that the parser tells apart
ParseLineKinds ==
    { Line("Find Response:", "none", ""),
      Line("", "none", ""),
      Line("other", "none", ""),
      Line("PatientID", "ok", "P1"),
      Line("PatientName", "none", ""),
      Line("PatientName", "reversed", ""),
      Line("PatientName", "ok", "Smith^John"),
      Line("PatientName", "ok", "Rubo DEMO "),
      Line("PatientName", "ok", "*"),
      Line("PatientName", "ok", " ") }

\* the outputs of up to MaxLines lines
ParseInputs == UNION { [1..n -> ParseLineKinds] : n \in 0..MaxLines }

\* a call of parseFindscuOutput
ParseCall ==
    /\ pfPc = "input"
    /\ pfOut' = parseFindscuOutput(pfIn)
    /\ pfPc' = "output"
    /\ UNCHANGED pfIn

MaxPieces == 5

\* A display name is a sequence of pieces: words, the caret and the blank
\* (the one piece for which unicode.IsSpace holds); its text is the pieces
\* written one after the other.
NamePieces == {"Smith", "John", "Q.", "^", " "}

IsSpace(c) == c = " "

\* the names of up to MaxPieces pieces
NameInputs == UNION { [1..n -> NamePieces] : n \in 0..MaxPieces }

RECURSIVE Text(_)
\* the string of a sequence of pieces
Text(s) == IF Len(s) = 0 THEN "" ELSE Head(s) \o Text(Tail(s))

RECURSIVE TrimLeft(_)
TrimLeft(s) == IF Len(s) > 0 /\ IsSpace(Head(s)) THEN TrimLeft(Tail(s)) ELSE s

RECURSIVE TrimRight(_)
TrimRight(s) ==
    IF Len(s) > 0 /\ IsSpace(s[Len(s)]) THEN TrimRight(SubSeq(s, 1, Len(s) - 1)) ELSE s

\* strings.TrimSpace on a name
TrimName(s) == TrimRight(TrimLeft(s))

RECURSIVE FieldsFrom(_, _, _)
\* the scan of strings.Fields: word is the field begun, fields the ones ended
FieldsFrom(s, word, fields) ==
    IF Len(s) = 0
      THEN IF Len(word) = 0 THEN fields ELSE Append(fields, word)
    ELSE IF IsSpace(Head(s))
      THEN FieldsFrom(Tail(s), <<>>, IF Len(word) = 0 THEN fields ELSE Append(fields, word))
    ELSE FieldsFrom(Tail(s), Append(word, Head(s)), fields)

\* strings.Fields: the maximal runs of pieces that are not blanks
Fields(s) == FieldsFrom(s, <<>>, <<>>)

\* mutant: FirstName^LastName
formatPatientNameFirstLast(name) ==
    LET parts == Fields(TrimName(name)) IN
    IF Len(parts) = 0 THEN <<>>
    ELSE IF Len(parts) = 1 THEN parts[1]
    ELSE parts[2] \o <<"^">> \o parts[1]
           \o (IF Len(parts) > 2 THEN <<"^">> \o parts[3] ELSE <<>>)

\* mutant: "LastName, FirstName"
formatPatientNameCommaBlank(name) ==
    LET parts == Fields(TrimName(name)) IN
    IF Len(parts) = 0 THEN <<>>
    ELSE IF Len(parts) = 1 THEN parts[1]
    ELSE parts[1] \o <<",", " ">> \o parts[2]
           \o (IF Len(parts) > 2 THEN <<" ">> \o parts[3] ELSE <<>>)

\* DicomService.formatPatientNameForDicom
formatPatientNameForDicom(name) ==
    LET parts == Fields(TrimName(name)) IN
    IF Len(parts) = 0 THEN <<>>
    ELSE IF Len(parts) = 1 THEN parts[1]
    ELSE LET lastName == parts[1]
             firstName == parts[2]
             formattedName == lastName \o <<"^">> \o firstName
         IN IF Len(parts) > 2 THEN formattedName \o <<"^">> \o parts[3]
                              ELSE formattedName

\* updateDicomWithPatientData, lines 484-491: the PatientName argument of dcmodify
PatientNameArg(name) == "(0010,0010)=" \o Text(formatPatientNameForDicom(name))

\* updateDicomWithPatientData builds the PatientName argument for patient.Name
FormatCall ==
    /\ pfPc = "input"
    /\ pfOut' = [formatted |-> formatPatientNameForDicom(pfIn), arg |-> PatientNameArg(pfIn)]
    /\ pfPc' = "output"
    /\ UNCHANGED pfIn

\* formatPatientNameForDicom is called with the name it has returned
FormatAgain ==
    /\ pfPc = "output"
    /\ pfOut' = [formatted |-> pfOut.formatted, arg |-> pfOut.arg,
                 again |-> formatPatientNameForDicom(pfOut.formatted)]
    /\ pfPc' = "again"
    /\ UNCHANGED pfIn

----------------------------------------------------------------------------
(* Specifications *)

InitExport ==
    /\ clock = 0
    /\ storage \in SUBSET AllJpgFiles
    /\ ExportIdle
    /\ NewScannerManager
    /\ ScanIdle
    /\ SearchIdle
    /\ RequestsIdle
    /\ CallIdle

NextExport ==
    \/ ExportStart /\ UNCHANGED <<regVars, scanVars, srchVars, reqVars, callVars>>
    \/ ExportContext /\ UNCHANGED <<regVars, scanVars, srchVars, reqVars, callVars>>
    \/ ExportFind /\ UNCHANGED <<regVars, scanVars, srchVars, reqVars, callVars>>
    \/ PageInit /\ UNCHANGED <<regVars, scanVars, srchVars, reqVars, callVars>>
    \/ ConvertBegin /\ UNCHANGED <<regVars, scanVars, srchVars, reqVars, callVars>>
    \/ ConvertEnd /\ UNCHANGED <<regVars, scanVars, srchVars, reqVars, callVars>>
    \/ UpdateEnd /\ UNCHANGED <<regVars, scanVars, srchVars, reqVars, callVars>>
    \/ SendEnd /\ UNCHANGED <<regVars, scanVars, srchVars, reqVars, callVars>>
    \/ CleanupEnd /\ UNCHANGED <<regVars, scanVars, srchVars, reqVars, callVars>>

SpecExport == InitExport /\ [][NextExport]_vars

\* SendToPacs with tools that may never exit. The request's goroutine runs
\* on, and a tool that does exit lets CombinedOutput return.
NextExportHang ==
    \/ NextExport
    \/ ToolHangs /\ UNCHANGED <<regVars, scanVars, srchVars, reqVars, callVars>>

SpecExportHang == InitExport /\ [][NextExportHang]_vars /\ WF_vars(NextExport)

InitRegistry ==
    /\ clock = 0
    /\ storage = {}
    /\ ExportIdle
    /\ NewScannerManager
    /\ ScanIdle
    /\ SearchIdle
    /\ RequestsIdle
    /\ CallIdle

\* a poll cycle: StartMonitoring and detectScanners
PollStep ==
    \/ Tick /\ UNCHANGED <<clock, expVars, scanVars, srchVars, reqVars, callVars>>
    \/ ExecReturn /\ UNCHANGED <<clock, expVars, scanVars, srchVars, reqVars, callVars>>
    \/ MarkAllConnected /\ UNCHANGED <<clock, expVars, scanVars, srchVars, reqVars, callVars>>
    \/ MarkAllStatus /\ UNCHANGED <<clock, expVars, scanVars, srchVars, reqVars, callVars>>
    \/ ParseLine /\ UNCHANGED <<expVars, scanVars, srchVars, reqVars, callVars>>
    \/ ParseEnd /\ UNCHANGED <<clock, expVars, scanVars, srchVars, reqVars, callVars>>
    \/ WriteStatus /\ UNCHANGED <<clock, expVars, scanVars, srchVars, reqVars, callVars>>
    \/ WriteLastSeen /\ UNCHANGED <<expVars, scanVars, srchVars, reqVars, callVars>>
    \/ AbsentNext /\ UNCHANGED <<clock, expVars, scanVars, srchVars, reqVars, callVars>>
    \/ AbsentStatus /\ UNCHANGED <<clock, expVars, scanVars, srchVars, reqVars, callVars>>
    \/ CycleEnd /\ UNCHANGED <<clock, expVars, scanVars, srchVars, reqVars, callVars>>

\* the poll loop and Stop
NextRegistry ==
    \/ PollStep
    \/ MonitorStop /\ UNCHANGED <<clock, expVars, scanVars, srchVars, reqVars, callVars>>
    \/ Stop /\ UNCHANGED <<clock, expVars, scanVars, srchVars, reqVars, callVars>>

SpecRegistry == InitRegistry /\ [][NextRegistry]_vars

\* StartMonitoring returns
MonitorReturns ==
    MonitorStop /\ UNCHANGED <<clock, expVars, scanVars, srchVars, reqVars, callVars>>

\* the loop over the output lines of scanimage -L reaches the last line
OutputEnds ==
    ParseEnd /\ UNCHANGED <<clock, expVars, scanVars, srchVars, reqVars, callVars>>

\* the poll loop under fair scheduling: the goroutine of StartMonitoring is
\* scheduled and scanimage -L exits (weak fairness of the poll steps); its
\* output has finitely many lines (strong fairness of the end of the line
\* loop); and the select, which chooses at random among its ready cases, does
\* not choose the ticker for ever when ctx.Done() is ready too (strong
\* fairness of the return)
SpecRegistryFair ==
    /\ InitRegistry /\ [][NextRegistry]_vars
    /\ WF_vars(PollStep) /\ SF_vars(OutputEnds) /\ SF_vars(MonitorReturns)

\* the poll loop and a request handler that calls GetScanners or
\* GetConnectedScanners and reads the entries it got
NextReaders ==
    \/ PollStep
    \/ GetScanners /\ UNCHANGED <<clock, expVars, scanVars, srchVars, reqVars, callVars>>
    \/ GetConnectedScanners /\ UNCHANGED <<clock, expVars, scanVars, srchVars, reqVars, callVars>>
    \/ ReadConnected /\ UNCHANGED <<clock, expVars, scanVars, srchVars, reqVars, callVars>>
    \/ ReadStatus /\ UNCHANGED <<clock, expVars, scanVars, srchVars, reqVars, callVars>>
    \/ ReadLastSeen /\ UNCHANGED <<clock, expVars, scanVars, srchVars, reqVars, callVars>>
    \/ Release /\ UNCHANGED <<clock, expVars, scanVars, srchVars, reqVars, callVars>>

SpecReaders == InitRegistry /\ [][NextReaders]_vars

\* the poll loop and a request handler that calls GetScanners or
\* GetConnectedScanners and drops the list
NextLists ==
    \/ PollStep
    \/ GetScanners /\ UNCHANGED <<clock, expVars, scanVars, srchVars, reqVars, callVars>>
    \/ GetConnectedScanners /\ UNCHANGED <<clock, expVars, scanVars, srchVars, reqVars, callVars>>
    \/ Release /\ UNCHANGED <<clock, expVars, scanVars, srchVars, reqVars, callVars>>

SpecLists == InitRegistry /\ [][NextLists]_vars

\* the poll loop at its select after a successful cycle that left reg
AtSelect(reg) ==
    /\ scanners = reg
    /\ mu = "free"
    /\ pollPc = "select"
    /\ currentScanners = {}
    /\ todo = {}
    /\ cur = NoDevice
    /\ cancelled = FALSE
    /\ stopChanClosed = FALSE
    /\ panicked = FALSE
    /\ rdPc = "idle"
    /\ rdList = << >>
    /\ rdCur = NoDevice
    /\ rdField = 0
    /\ obs = [Connected |-> FALSE, Status |-> ""]
    /\ enumerated = { d \in DOMAIN reg : reg[d].Connected }
    /\ preCycle = reg
    /\ lastOutcome = "ok"
    /\ prevAbsent = {}
    /\ inserted = DOMAIN reg
    /\ versions = {}

\* a ScanDocument call on a registry that the poll cycles have left, with an
\* empty temp directory
InitScan ==
    /\ clock = 0
    /\ storage = {}
    /\ ExportIdle
    /\ \E reg \in Registries : AtSelect(reg)
    /\ ScanIdle
    /\ SearchIdle
    /\ RequestsIdle
    /\ CallIdle

NextScan ==
    \/ ScanStart /\ UNCHANGED <<clock, expVars, regVars, srchVars, reqVars, callVars>>
    \/ ScanCheck /\ UNCHANGED <<clock, expVars, regVars, srchVars, reqVars, callVars>>
    \/ ScanBuild /\ UNCHANGED <<expVars, regVars, srchVars, reqVars, callVars>>
    \/ ScanRun /\ UNCHANGED <<clock, expLocals, regVars, srchVars, reqVars, callVars>>
    \/ ProbeNext /\ UNCHANGED <<clock, expVars, regVars, srchVars, reqVars, callVars>>
    \/ ProbeEnd /\ UNCHANGED <<clock, expVars, regVars, srchVars, reqVars, callVars>>
    \/ DuplexNext /\ UNCHANGED <<clock, expVars, regVars, srchVars, reqVars, callVars>>
    \/ SingleStat /\ UNCHANGED <<clock, expVars, regVars, srchVars, reqVars, callVars>>
    \/ ScanReturn /\ UNCHANGED <<clock, expVars, regVars, srchVars, reqVars, callVars>>

SpecScan == InitScan /\ [][NextScan]_vars

\* a SearchPatients call
NextSearch ==
    \/ SearchStart /\ UNCHANGED <<clock, expVars, regVars, scanVars, reqVars, callVars>>
    \/ QueryNext /\ UNCHANGED <<clock, expVars, regVars, scanVars, reqVars, callVars>>
    \/ PatternsEnd /\ UNCHANGED <<clock, expVars, regVars, scanVars, reqVars, callVars>>
    \/ ConnectionTest /\ UNCHANGED <<clock, expVars, regVars, scanVars, reqVars, callVars>>

SpecSearch == InitRegistry /\ [][NextSearch]_vars

\* POST /api/scan requests, each served by a goroutine of its own, on a
\* registry that the poll cycles have left and a temp directory that is empty
\* or holds the page of an earlier scan
InitRequests ==
    /\ clock = 0
    /\ storage \in { {}, {BatchFile(BaseFilename(0), 1)} }
    /\ ExportIdle
    /\ \E reg \in Registries : AtSelect(reg)
    /\ ScanIdle
    /\ SearchIdle
    /\ RequestsIdle
    /\ CallIdle

NextRequests ==
    \E r \in Requests :
        \/ StartScanCheck(r) /\ UNCHANGED <<expLocals, regVars, scanVars, srchVars, callVars>>
        \/ StartScanTool(r) /\ UNCHANGED <<expLocals, regVars, scanVars, srchVars, callVars>>
        \/ StartScanAnswer(r) /\ UNCHANGED <<expLocals, regVars, scanVars, srchVars, callVars>>

SpecRequests == InitRequests /\ [][NextRequests]_vars

\* parseFindscuOutput on the outputs of ParseInputs
InitParse ==
    /\ clock = 0
    /\ storage = {}
    /\ ExportIdle
    /\ NewScannerManager
    /\ ScanIdle
    /\ SearchIdle
    /\ RequestsIdle
    /\ pfPc = "input"
    /\ pfIn \in ParseInputs
    /\ pfOut = <<>>

NextParse ==
    ParseCall /\ UNCHANGED <<clock, expVars, regVars, scanVars, srchVars, reqVars>>

SpecParse == InitParse /\ [][NextParse]_vars

\* formatPatientNameForDicom on the names of NameInputs
InitFormatName ==
    /\ clock = 0
    /\ storage = {}
    /\ ExportIdle
    /\ NewScannerManager
    /\ ScanIdle
    /\ SearchIdle
    /\ RequestsIdle
    /\ pfPc = "input"
    /\ pfIn \in NameInputs
    /\ pfOut = <<>>

NextFormatName ==
    \/ FormatCall /\ UNCHANGED <<clock, expVars, regVars, scanVars, srchVars, reqVars>>
    \/ FormatAgain /\ UNCHANGED <<clock, expVars, regVars, scanVars, srchVars, reqVars>>

SpecFormatName == InitFormatName /\ [][NextFormatName]_vars

----------------------------------------------------------------------------
(* Claims about SendToPacs *)

Stages == {"img2dcm", "dcmodify", "dcmsend"}

\* the invocations of a stage tool for the page at 0-based position i that failed
FailedCalls(i) ==
    { j \in DOMAIN calls : calls[j].page = i /\ calls[j].tool \in Stages /\ ~calls[j].ok }

\* all three stage tools of the page at position i ran and succeeded
StagesSucceeded(i) ==
    \A t \in Stages :
        \E j \in DOMAIN calls : calls[j].page = i /\ calls[j].tool = t /\ calls[j].ok

FailurePrefixes == {"Conversion failed: ", "Update failed: ", "Upload failed: "}

\* C1: when SendToPacs returns its progress list, every page of the run has a
\* job; a page one of whose stages (convert, tag, send) failed has status
\* failed, progress 0 and a message made of the failing tool's error text, and
\* every other page, before or after it, has all its stages succeeded and is
\* completed.
C1_FailureIsolation ==
    (expPc = "idle" /\ returned = "progress") =>
        /\ Len(progress) = Len(jpgFiles)
        /\ \A k \in 1..Len(jpgFiles) :
              IF FailedCalls(k - 1) # {}
                THEN /\ progress[k].Status = "failed"
                     /\ progress[k].Progress = 0
                     /\ \E j \in FailedCalls(k - 1), pre \in FailurePrefixes :
                            progress[k].Message = pre \o calls[j].error
                ELSE /\ StagesSucceeded(k - 1)
                     /\ progress[k].Status = "completed"

\* a 3-page run has returned in which send failed for page 2 and pages 1 and 3
\* are completed
C1_Witness ==
    /\ expPc = "idle" /\ returned = "progress"
    /\ Len(progress) = 3
    /\ progress[1].Status = "completed"
    /\ progress[2].Status = "failed"
    /\ \E j \in FailedCalls(1) : calls[j].tool = "dcmsend"
    /\ progress[3].Status = "completed"

StatusSteps ==
    { <<"converting", "updating">>, <<"updating", "sending">>,
      <<"sending", "cleaning">>, <<"cleaning", "completed">>,
      <<"converting", "failed">>, <<"updating", "failed">>, <<"sending", "failed">> }

\* C2: in every step the status of every job of the run either stays or moves
\* along converting -> updating -> sending -> cleaning -> completed or from
\* converting, updating or sending to failed; so failed is not entered from
\* cleaning or completed, and completed and failed are never left.
C2_StatusTransitions ==
    [][ \A k \in DOMAIN progress :
            k \in DOMAIN progress' =>
                \/ progress'[k].Status = progress[k].Status
                \/ <<progress[k].Status, progress'[k].Status>> \in StatusSteps ]_vars

\* a later page is in cleaning after an earlier page of the run has failed
C2_Witness ==
    /\ Len(progress) >= 2
    /\ progress[1].Status = "failed"
    /\ progress[Len(progress)].Status = "cleaning"

\* the invocations of dcmodify of the run
TagCalls == { j \in DOMAIN calls : calls[j].tool = "dcmodify" }

\* C3: every page that is tagged, at 0-based position i of the discovery order,
\* is tagged with instance number i+1 and SOP instance UID <series>.<i+1>, and
\* two different pages of the run never get the same SOP instance UID.
C3_SopInstanceUID ==
    /\ \A j \in TagCalls :
          LET i == calls[j].page IN
          /\ calls[j].file = DcmName(jpgFiles[i + 1])
          /\ calls[j].tags.instanceNumber = i + 1
          /\ calls[j].tags.sopInstanceUID = seriesInstanceUID \o "." \o Itoa(i + 1)
    /\ \A j1, j2 \in TagCalls :
          calls[j1].page # calls[j2].page =>
              calls[j1].tags.sopInstanceUID # calls[j2].tags.sopInstanceUID

\* two pages of a run are tagged, with <series>.1 and <series>.2
C3_Witness ==
    /\ seriesInstanceUID # ""
    /\ \E j1, j2 \in TagCalls :
          /\ calls[j1].page = 0 /\ calls[j2].page = 1
          /\ calls[j1].tags.sopInstanceUID = seriesInstanceUID \o ".1"
          /\ calls[j2].tags.sopInstanceUID = seriesInstanceUID \o ".2"

PageStages == {"page", "convert", "img2dcm", "dcmodify", "dcmsend", "cleanup"}

\* C4: the study context is generated before the first page is processed and is
\* not changed while the pages are processed; every page tagged in the run gets
\* the run's study ID, study instance UID and series instance UID, so that two
\* tagged pages differ only in instance number and SOP instance UID.
C4_StudyContext ==
    /\ expPc \in PageStages =>
          /\ studyID # "" /\ studyInstanceUID # "" /\ seriesInstanceUID # ""
          /\ \E t1, t2 \in 0..clock, rnd \in RandomHex :
                /\ studyID = generateStudyID(t1, rnd)
                /\ studyInstanceUID = StudyInstanceUID(t2)
                /\ seriesInstanceUID = SeriesInstanceUID(studyInstanceUID)
    /\ \A j \in TagCalls :
          /\ calls[j].tags.studyID = studyID
          /\ calls[j].tags.studyInstanceUID = studyInstanceUID
          /\ calls[j].tags.seriesInstanceUID = seriesInstanceUID
    /\ \A j1, j2 \in TagCalls :
          /\ [calls[j1].tags EXCEPT !.instanceNumber = 0, !.sopInstanceUID = ""]
               = [calls[j2].tags EXCEPT !.instanceNumber = 0, !.sopInstanceUID = ""]
          /\ j1 # j2 => calls[j1].tags.instanceNumber # calls[j2].tags.instanceNumber

\* three pages of one run have been tagged
C4_Witness ==
    /\ Cardinality(TagCalls) = 3
    /\ \A j \in TagCalls : calls[j].ok

----------------------------------------------------------------------------
(* Claims about the registry and its readers *)

\* what the handler has seen of rdCur when it reads LastSeen, its last field
Seen ==
    [Connected |-> obs.Connected, Status |-> obs.Status,
     LastSeen |-> scanners[rdCur].LastSeen]

\* C5: a record that a caller has read through the list it got from
\* GetScanners or GetConnectedScanners, while the poll loop runs, is never a
\* partially updated one: Connected agrees with Status, and the three fields
\* are those of one value that an update of the entry left behind.
C5_NoTornRecord ==
    [][ (rdPc = "holding" /\ rdField = 2 /\ rdField' = 0 /\ rdPc' = "holding") =>
            /\ obs.Connected <=> (obs.Status = "connected")
            /\ Seen \in versions ]_vars

\* C6: what a caller finds in the entries of a list it holds is not changed
\* by the poll loop: the list is a copy, not references into sm.scanners.
C6_SnapshotCopy ==
    [][ (rdPc = "holding" /\ rdPc' = "holding" /\ rdList' = rdList) =>
            \A k \in DOMAIN rdList : scanners'[rdList[k]] = scanners[rdList[k]] ]_vars

\* the last poll cycle has finished with this outcome and no cycle is updating
AfterCycle(outcome) == mu = "free" /\ lastOutcome = outcome

\* C7: an address once inserted stays in the registry. After a successful
\* cycle every entry absent from its output is still there and disconnected;
\* an entry absent from this and from the preceding successful cycle was
\* already disconnected when this cycle began, and has stayed so.
C7_NeverRemoved ==
    /\ inserted \subseteq DOMAIN scanners
    /\ DOMAIN preCycle \subseteq DOMAIN scanners
    /\ AfterCycle("ok") =>
          /\ \A d \in DOMAIN preCycle \ enumerated :
                ~scanners[d].Connected /\ scanners[d].Status = "disconnected"
          /\ \A d \in prevAbsent \ enumerated :
                /\ d \in DOMAIN preCycle
                /\ ~preCycle[d].Connected /\ preCycle[d].Status = "disconnected"
                /\ ~scanners[d].Connected /\ scanners[d].Status = "disconnected"

\* an entry has been absent from two successful cycles in a row, and one was
\* connected before the cycle that found it absent
C7_Witness ==
    /\ AfterCycle("ok")
    /\ \E d \in prevAbsent \ enumerated : d \in inserted /\ ~scanners[d].Connected
    /\ \E d \in DOMAIN preCycle \ enumerated : preCycle[d].Connected

\* C8: after a successful cycle, whatever came before, the addresses of its
\* output are all in the registry, and an entry is connected exactly when its
\* address is in the output.
C8_ConnectedIsEnumerated ==
    AfterCycle("ok") =>
        /\ enumerated \subseteq DOMAIN scanners
        /\ { d \in DOMAIN scanners : scanners[d].Connected } = enumerated
        /\ \A d \in DOMAIN scanners :
              scanners[d].Status = IF d \in enumerated THEN "connected" ELSE "disconnected"

\* a successful cycle has found again an entry that was disconnected and has
\* inserted another address
C8_Witness ==
    /\ AfterCycle("ok")
    /\ Cardinality(enumerated) = 2
    /\ \E d \in enumerated : d \in DOMAIN preCycle /\ ~preCycle[d].Connected
    /\ \E d \in enumerated : d \notin DOMAIN preCycle

\* C9: after a cycle whose command failed every entry is disconnected, the
\* registry has the addresses it had before, and the loop, unless it has
\* been stopped, stands at its select or has begun the next cycle.
C9_FailedEnumeration ==
    AfterCycle("failed") =>
        /\ DOMAIN scanners = DOMAIN preCycle
        /\ \A d \in DOMAIN scanners :
              ~scanners[d].Connected /\ scanners[d].Status = "disconnected"
        /\ (~cancelled /\ ~panicked) => (pollPc = "exec" \/ (pollPc = "select" /\ ENABLED Tick))

\* the command failed with two entries in the registry, one of them connected
C9_Witness ==
    /\ AfterCycle("failed")
    /\ Cardinality(DOMAIN scanners) = 2
    /\ \E d \in DOMAIN preCycle : preCycle[d].Connected /\ ~scanners[d].Connected

\* C10: calling Stop again does not panic.
C10_StopTwice == ~panicked

----------------------------------------------------------------------------
(* Claims about tools that do not exit *)

\* C11: an external tool of SendToPacs (img2dcm, dcmodify, dcmsend) that never
\* exits does not block the call for ever: whenever the call waits for such a
\* tool, later the page's job is failed and the call has returned its
\* progress list.
C11_HungToolTimesOut ==
    (expPc = "blocked") ~>
        (returned = "progress" /\ \E k \in DOMAIN progress : progress[k].Status = "failed")

----------------------------------------------------------------------------
(* Claims about ScanDocument *)

\* the runs of scanimage and the os.Stat calls of the call
ToolRuns == { k \in DOMAIN scLog : scLog[k].op = "run" }
StatCalls == { k \in DOMAIN scLog : scLog[k].op = "stat" }

\* the call has returned without an error
ScanSucceeded == scPc = "done" /\ scResult.err = ""

\* C12: when scanimage exits with a non-zero status or is killed at the
\* deadline, ScanDocument has returned, with the error "scan failed: "
\* followed by what the tool wrote to stderr (or, without such text, by the
\* error of the run), with no filenames, and without any os.Stat of the temp
\* directory.
C12_ScanFailed ==
    \A k \in ToolRuns :
        scLog[k].err # "" =>
            /\ scPc = "done"
            /\ scResult.err = "scan failed: "
                   \o (IF scLog[k].stderr = "" THEN scLog[k].err ELSE scLog[k].stderr)
                   \o " \n " \o CmdString(scArgs)
            /\ scResult.filenames = <<>>
            /\ StatCalls = {}

\* the tool was killed at the deadline after it wrote to stderr and a first page
C12_Witness ==
    /\ scPc = "done"
    /\ \E k \in ToolRuns : scLog[k].err = "signal: killed" /\ scLog[k].stderr # ""
    /\ scOptions.MultiPage /\ BatchFile(scBase, 1) \in storage

\* C13: ScanDocument for an address that is not in the registry returns the
\* not-found error, for an entry that is not connected the not-connected
\* error; in both cases scanimage is not run and no filename is returned.
C13_DeviceErrors ==
    /\ (scPc # "idle" /\ (scDevice \notin DOMAIN scanners \/ ~scanners[scDevice].Connected))
          => (scPc \in {"check", "done"} /\ scLog = <<>>)
    /\ scPc = "done" =>
          /\ scDevice \notin DOMAIN scanners =>
                scResult = ScanError("scanner device '" \o scDevice \o "' not found")
          /\ (scDevice \in DOMAIN scanners /\ ~scanners[scDevice].Connected) =>
                scResult = ScanError("scanner '" \o scanners[scDevice].Name
                                         \o "' is not connected")

\* a call for an entry of the registry that is disconnected has returned
C13_Witness ==
    /\ scPc = "done"
    /\ scDevice \in DOMAIN scanners
    /\ ~scanners[scDevice].Connected
    /\ scResult.err # ""

\* the k for which the pages 1..k exist and page k+1 does not, capped at maxPages
LastPage ==
    CHOOSE k \in 0..maxPages :
        /\ \A j \in 1..k : BatchFile(scBase, j) \in storage
        /\ k = maxPages \/ BatchFile(scBase, k + 1) \notin storage

\* C14: a multi-page scan that succeeded with <base>_1.jpg in the temp
\* directory returns exactly <base>_1.jpg .. <base>_k.jpg in this order, k the
\* last page before the first gap, and at most maxPages names.
C14_SequentialPages ==
    (ScanSucceeded /\ scOptions.MultiPage /\ BatchFile(scBase, 1) \in storage) =>
        /\ scResult.filenames = [ j \in 1..LastPage |-> FileName(BatchFile(scBase, j)) ]
        /\ Len(scResult.filenames) <= maxPages

\* pages 1..3 and page 5 exist, and three names were returned
C14_Witness ==
    /\ ScanSucceeded
    /\ scOptions.MultiPage
    /\ BatchPages(scBase, 3) \cup {BatchFile(scBase, 5)} \subseteq storage
    /\ BatchFile(scBase, 4) \notin storage
    /\ Len(scResult.filenames) = 3

\* scanimage has exited with status 0
ToolSucceeded == \E k \in ToolRuns : scLog[k].err = ""

\* no file of the job exists under the names ScanDocument looks for
NothingToFind ==
    IF scOptions.MultiPage
      THEN /\ BatchFile(scBase, 1) \notin storage
           /\ scOptions.Duplex =>
                 \A k \in 1..5 : DuplexPatterns(scBase, 1)[k] \notin storage
      ELSE SingleFile(scBase) \notin storage

\* C15: ScanDocument never returns an empty list of filenames without an
\* error: after a run of scanimage that succeeded, a multi-page job with no
\* file under the sequential names nor (for duplex) under the front/back names
\* returns the error that no files were created, and a single page job whose
\* output path does not exist returns the error that the file was not created.
C15_NoOutputProduced ==
    /\ ScanSucceeded => Len(scResult.filenames) > 0
    /\ (scPc = "done" /\ ToolSucceeded /\ NothingToFind) =>
          scResult = ScanError(IF scOptions.MultiPage
                                 THEN "scan completed but no files were created"
                                 ELSE "scan completed but file was not created")

\* a duplex batch has left a page 2 only, and the call has returned
C15_Witness ==
    /\ scPc = "done"
    /\ ToolSucceeded
    /\ scOptions.MultiPage /\ scOptions.Duplex
    /\ BatchFile(scBase, 2) \in storage
    /\ NothingToFind
    /\ scResult.err # ""

\* C16: a single page, one-sided scan in color at resolution 300 that succeeds
\* returns one filename, <base>.jpg, and no name with a page number.
C16_SinglePage ==
    (/\ ScanSucceeded
     /\ ~scOptions.MultiPage /\ ~scOptions.Duplex
     /\ scOptions.Color /\ scOptions.Resolution = 300) =>
        /\ scResult.filenames = <<scBase \o ".jpg">>
        /\ \A n \in 1..maxPages : FileName(BatchFile(scBase, n)) # scResult.filenames[1]

\* such a scan has succeeded
C16_Witness ==
    /\ ScanSucceeded
    /\ ~scOptions.MultiPage /\ ~scOptions.Duplex
    /\ scOptions.Color /\ scOptions.Resolution = 300
    /\ Len(scResult.filenames) = 1
    /\ scArgs[Len(scArgs) - 3] = "-o"

----------------------------------------------------------------------------
(* Claims about SearchPatients *)

\* the pattern queries and the connection tests of the call, in their order
Queries == SelectSeq(srLog, LAMBDA e : e.op = "query")
Probes == SelectSeq(srLog, LAMBDA e : e.op = "probe")

RECURSIVE Yielded(_)
\* the records that the responses of the queries that succeeded hold, in order
Yielded(qs) ==
    IF Len(qs) = 0 THEN <<>>
    ELSE (IF Head(qs).err = "" THEN parseFindscuOutput(Head(qs).output).patients
                               ELSE <<>>)
         \o Yielded(Tail(qs))

\* the place at which an identifier is first seen in a sequence of records
FirstSeen(recs, id) ==
    CHOOSE k \in DOMAIN recs :
        recs[k].PatientID = id /\ \A j \in 1..(k - 1) : recs[j].PatientID # id

\* the call has returned without an error
SearchSucceeded == srPc = "done" /\ srResult.err = ""

\* C17: the result of a search holds no two records with the same patient
\* identifier, whatever the responses hold; each record is the one with which
\* its identifier was first seen, and the records are in the order in which
\* their identifiers were first seen over the queries.
C17_Deduplicated ==
    SearchSucceeded =>
        LET res == srResult.patients
            all == Yielded(Queries)
        IN /\ \A i, j \in DOMAIN res : i # j => res[i].PatientID # res[j].PatientID
           /\ \A i \in DOMAIN res :
                 /\ \E k \in DOMAIN all : all[k].PatientID = res[i].PatientID
                 /\ res[i] = all[FirstSeen(all, res[i].PatientID)]
           /\ \A i, j \in DOMAIN res :
                 i < j => FirstSeen(all, res[i].PatientID) < FirstSeen(all, res[j].PatientID)
           /\ \A k \in DOMAIN all :
                 all[k].PatientID # "" =>
                     \E i \in DOMAIN res : res[i].PatientID = all[k].PatientID

\* the three patterns have all returned P1, the second one after P2
C17_Witness ==
    /\ SearchSucceeded
    /\ Len(Queries) = 3
    /\ Queries[1].output = Block(P1)
    /\ Queries[2].output = Block(P2) \o Block(P1a)
    /\ Queries[3].output = Block(P1) \o Block(P2)
    /\ \A k \in 1..3 : Queries[k].err = ""
    /\ srResult.patients = <<P1, P2>>

\* the -k arguments that a search of this kind has to issue, in their order
PatternKeys ==
    IF srType = "birthdate"
      THEN <<"PatientBirthDate=" \o srTerm>>
      ELSE <<"PatientName=" \o srTerm \o "*", "PatientName=*" \o srTerm \o "*",
             "PatientName=*" \o srTerm>>

\* a query has failed with the marker in its output, which ends the search
AssociationFailed == \E k \in DOMAIN Queries : Queries[k].err # "" /\ HasMarker(Queries[k].output)

\* C18: a birthdate search issues one query, for the term itself; a search of
\* any other kind issues the queries for term*, *term* and *term in this
\* order, one at a time, and all three of them whether or not an earlier one
\* returned records or failed without the marker of an association failure.
C18_PatternQueries ==
    /\ Len(Queries) <= Len(PatternKeys)
    /\ \A k \in DOMAIN Queries : Queries[k].key = PatternKeys[k]
    /\ (srPc \in {"probe", "done"} /\ ~AssociationFailed) =>
          Len(Queries) = Len(PatternKeys)
    /\ srPc # "idle" =>
          Len(PatternKeys) = IF srType = "birthdate" THEN 1 ELSE 3

\* a name search whose first query returned a record and whose second query
\* failed has issued the third
C18_Witness ==
    /\ srPc = "done"
    /\ srType = "name"
    /\ Len(Queries) = 3
    /\ Queries[1].err = "" /\ Queries[1].output = Block(P1)
    /\ Queries[2].err = "exit status 1" /\ ~HasMarker(Queries[2].output)
    /\ Queries[3].key = "PatientName=*Smith"

\* C19: when the output of a pattern query holds the marker of an association
\* failure, whatever the exit status of findscu and whatever was found before,
\* the search has returned the error "DICOM error: " with that output, and
\* this query is the last thing the call has run: no further query and no
\* connection test.
C19_AssociationFailure ==
    \A k \in DOMAIN srLog :
        (srLog[k].op = "query" /\ HasMarker(srLog[k].output)) =>
            /\ srPc = "done"
            /\ srResult = SearchError("DICOM error: " \o OutputText(srLog[k].output))
            /\ k = Len(srLog)

\* the queries have all been run and none has ended the search
PatternsDone == srPc = "done" /\ ~AssociationFailed

\* C20 as stated: the connection test is run once when the pattern queries
\* yielded no record and not at all when they yielded one; the search fails
\* with the unable-to-connect error when the test fails and returns an empty
\* result without an error when it succeeds.
C20_ProbeIffNothingYielded ==
    PatternsDone =>
        /\ Len(Probes) = IF Len(Yielded(Queries)) = 0 THEN 1 ELSE 0
        /\ Len(Probes) = 1 =>
              srResult = IF Probes[1].err # "" THEN SearchError(UnableToConnect)
                                               ELSE SearchOk(<<>>)

\* the records of the responses that carry a patient identifier
Identified(recs) == SelectSeq(recs, LAMBDA p : p.PatientID # "")

\* C20, amended: the connection test is run once when the pattern queries
\* yielded no record with a patient identifier (records without one are not
\* taken into the result) and not at all when they yielded one; the search
\* fails with the unable-to-connect error when the test fails and returns an
\* empty result without an error when it succeeds.
C20_ProbeIffNothingAccepted ==
    /\ Len(Probes) <= 1
    /\ Len(Identified(Yielded(Queries))) > 0 => Len(Probes) = 0
    /\ PatternsDone =>
        /\ Len(Probes) = IF Len(Identified(Yielded(Queries))) = 0 THEN 1 ELSE 0
        /\ Len(Probes) = 1 =>
              srResult = IF Probes[1].err # "" THEN SearchError(UnableToConnect)
                                               ELSE SearchOk(<<>>)

\* the only record the queries yielded has no identifier; the connection
\* test was run and succeeded
C20_Witness ==
    /\ PatternsDone
    /\ Len(Yielded(Queries)) > 0
    /\ Len(Probes) = 1
    /\ Probes[1].err = ""
    /\ srResult = SearchOk(<<>>)

----------------------------------------------------------------------------
(* Claims about the stages of SendToPacs *)

\* the cleanupFiles calls of the run that returned an error
FailedCleanups == { j \in DOMAIN calls : calls[j].tool = "cleanup" /\ ~calls[j].ok }

\* the pages of the run whose dcmsend succeeded
SentPages == { calls[j].page : j \in { n \in DOMAIN calls :
                                        calls[n].tool = "dcmsend" /\ calls[n].ok } }

\* C21: a page whose send stage succeeded is never failed, and is completed
\* with progress 100 once its clean stage is over, whether or not cleanupFiles
\* returned an error; after a cleanup error the run goes on with the following
\* pages, so that the returned list has an entry for every page found.
C21_CleanupFailureTolerated ==
    /\ \A i \in SentPages :
          /\ progress[i + 1].Status \in {"sending", "cleaning", "completed"}
          /\ (idx > i \/ returned = "progress") =>
                 /\ progress[i + 1].Status = "completed"
                 /\ progress[i + 1].Progress = 100
    /\ \A j \in FailedCleanups :
          /\ calls[j].page \in SentPages
          /\ progress[calls[j].page + 1].Status = "completed"
          /\ expPc = "idle" => (returned = "progress" /\ Len(progress) = Len(jpgFiles))
          /\ (expPc # "idle" /\ idx > calls[j].page) => idx < Len(jpgFiles)

\* a run has returned in which the cleanup of page 1 failed and pages 1 and 2
\* are completed
C21_Witness ==
    /\ returned = "progress"
    /\ Len(progress) >= 2
    /\ \E j \in FailedCleanups : calls[j].page = 0
    /\ progress[1].Status = "completed" /\ progress[1].Progress = 100
    /\ progress[2].Status = "completed"

ProgressValues == {0, 20, 50, 80, 90, 100}

\* C22: in every step the progress of every job of the run is one of 0, 20,
\* 50, 80, 90, 100 and is not lower than before, unless it is the 0 of a job
\* that is failed; and in the list that SendToPacs returns a job has progress
\* 100 exactly when it is completed and progress 0 exactly when it is failed.
C22_ProgressValues ==
    [][ /\ \A k \in DOMAIN progress' :
              /\ progress'[k].Progress \in ProgressValues
              /\ k \in DOMAIN progress =>
                    \/ progress'[k].Progress >= progress[k].Progress
                    \/ progress'[k].Progress = 0 /\ progress'[k].Status = "failed"
        /\ returned' = "progress" =>
              \A k \in DOMAIN progress' :
                  /\ progress'[k].Progress = 100 <=> progress'[k].Status = "completed"
                  /\ progress'[k].Progress = 0 <=> progress'[k].Status = "failed" ]_vars

\* a 2-page run has returned with page 1 at 100 and page 2, whose tagging
\* failed at progress 50, at 0
C22_Witness ==
    /\ returned = "progress"
    /\ Len(progress) = 2
    /\ progress[1].Progress = 100
    /\ progress[2].Progress = 0
    /\ \E j \in FailedCalls(1) : calls[j].tool = "dcmodify"

TerminalStatus == {"completed", "failed"}

\* the positions of SendToPacs at which a tool or the cleanup of the current
\* page is at work
WorkPcs == ToolPcs \cup {"cleanup"}

\* C26: the pages of a run are processed one after the other: when a tool
\* (convert, tag, send) or the cleanup of a page starts, and when the job of a
\* page is created, the jobs of all pages before it are completed or failed;
\* at most one job is in a non-terminal stage, and it is the last one.
C26_OnePageAtATime ==
    [][ /\ (expPc' \in WorkPcs /\ expPc' # expPc) =>
              /\ Len(progress') = idx' + 1
              /\ \A k \in 1..idx' : progress'[k].Status \in TerminalStatus
        /\ Len(progress') > Len(progress) =>
              \A k \in DOMAIN progress : progress[k].Status \in TerminalStatus
        /\ \A k \in DOMAIN progress' :
              progress'[k].Status \notin TerminalStatus => k = Len(progress') ]_vars

\* dcmsend runs for page 3 after page 1 was completed and page 2 failed
C26_Witness ==
    /\ expPc = "dcmsend"
    /\ idx = 2
    /\ progress[1].Status = "completed"
    /\ progress[2].Status = "failed"
    /\ progress[3].Status = "sending"

----------------------------------------------------------------------------
(* Claims about the lists of the registry *)

\* the place of a display name in the alphabet when case is ignored
FoldedRank(name) ==
    CASE name \in {"alpha scanner"} -> 1
      [] name \in {"Beta scanner"} -> 2

\* C23: every list that GetScanners or GetConnectedScanners has returned is
\* in non-decreasing order of the display names compared without regard to
\* case, whatever entries the registry holds.
C23_ListsSorted ==
    \A a, b \in DOMAIN rdList :
        a < b => FoldedRank(scanners[rdList[a]].Name) <= FoldedRank(scanners[rdList[b]].Name)

\* a returned list of two entries: "alpha scanner" before "Beta scanner",
\* whose byte order is the other way round
C23_Witness ==
    /\ rdPc = "holding"
    /\ rdField = 0
    /\ Len(rdList) = 2
    /\ scanners[rdList[1]].Name = "alpha scanner"
    /\ scanners[rdList[2]].Name = "Beta scanner"

\* the second of a time.Now().Format(time.RFC3339) text
TimeOf(text) == CHOOSE t \in 0..MaxTime : FormatRFC3339(t) = text

----------------------------------------------------------------------------
(* Claims about Router.startScan *)

\* C27: scanimage is never started while the temp directory holds a file of
\* an allowed extension, however the scan requests interleave; a request that
\* finds such files is answered with 409.
C27_NoScanOverFiles ==
    \A j \in DOMAIN rqLog : rqLog[j].files = {}

----------------------------------------------------------------------------
(* Claims about the arguments of scanimage *)

\* the DPI values of the README
EnumeratedResolutions == {"150", "300", "600"}

\* C28: the --resolution argument of every scanimage run of ScanDocument is
\* 150, 300 or 600, also for a request whose options are given with no
\* resolution or with one that is not supported.
C28_ResolutionEnumerated ==
    \A k \in ToolRuns :
        /\ scLog[k].args[4] = "--resolution"
        /\ scLog[k].args[5] \in EnumeratedResolutions

----------------------------------------------------------------------------
(* Claims about parseFindscuOutput *)

\* the section markers of the parsed output
Markers == { m \in DOMAIN pfIn : pfIn[m].label = "Find Response:" }

\* the block that the marker at line m starts: the lines after it, up to the
\* next marker or empty line
BlockOf(m) ==
    { k \in DOMAIN pfIn :
        /\ k > m
        /\ \A n \in (m + 1)..k : pfIn[n].label \notin {"Find Response:", ""} }

\* the display names that are not the wildcard and not empty
ProperNames == {"Smith^John", "Rubo DEMO"}

\* the lines of the block of m that show such a name in brackets
NameLines(m) ==
    { k \in BlockOf(m) :
        /\ pfIn[k].label = "PatientName"
        /\ pfIn[k].brackets = "ok"
        /\ \E name \in ProperNames : pfIn[k].value \in {name, name \o " "} }

\* the markers whose block shows a proper name
NamedBlocks == { m \in Markers : NameLines(m) # {} }

\* the name of line k without the blank at its end
NameAt(k) == CHOOSE name \in ProperNames : pfIn[k].value \in {name, name \o " "}

\* C29: parseFindscuOutput returns one record for each block in which a
\* display name that is neither empty nor "*" was seen, in the order of the
\* blocks and under the last such name of the block, and no record for any
\* other block; so no returned record has the name "*" or no name.
C29_RecordIffNamed ==
    (pfPc = "output" /\ ~pfOut.fault) =>
        /\ Len(pfOut.patients) = Cardinality(NamedBlocks)
        /\ \A i \in DOMAIN pfOut.patients :
              /\ pfOut.patients[i].Name \notin {"*", ""}
              /\ \E m \in NamedBlocks :
                    /\ Cardinality({ n \in NamedBlocks : n < m }) = i - 1
                    /\ \E k \in NameLines(m) :
                          /\ \A n \in NameLines(m) : n <= k
                          /\ pfOut.patients[i].Name = NameAt(k)

\* an output of two blocks has been parsed: the first with "*" as its only
\* name, the second with a proper name; one record is returned
C29_Witness ==
    /\ pfPc = "output"
    /\ ~pfOut.fault
    /\ Cardinality(Markers) = 2
    /\ \E m \in Markers \ NamedBlocks :
          \E k \in BlockOf(m) : pfIn[k].label = "PatientName" /\ pfIn[k].value = "*"
    /\ Len(pfOut.patients) = 1
    /\ pfOut.patients[1].Name = "Rubo DEMO"

----------------------------------------------------------------------------
(* Claims about formatPatientNameForDicom *)

\* the places of the name at which a token begins: a piece that is not a
\* blank, at the start of the name or after a blank
TokenStarts == { i \in DOMAIN pfIn : pfIn[i] # " " /\ (i = 1 \/ pfIn[i - 1] = " ") }

\* the n-th whitespace-separated token of the name
Token(n) ==
    LET i == CHOOSE a \in TokenStarts : Cardinality({ b \in TokenStarts : b < a }) = n - 1
        j == CHOOSE e \in i..Len(pfIn) :
                 /\ \A k \in i..e : pfIn[k] # " "
                 /\ (e = Len(pfIn) \/ pfIn[e + 1] = " ")
    IN SubSeq(pfIn, i, j)

\* C30: the patient name that the tag stage hands to dcmodify is t1 for a
\* display name of one whitespace-separated token t1, t1^t2 for one of two
\* tokens and t1^t2^t3 for one of three tokens.
C30_LastFirstMiddle ==
    pfPc = "output" =>
        /\ pfOut.arg = "(0010,0010)=" \o Text(pfOut.formatted)
        /\ Cardinality(TokenStarts) = 1 => pfOut.formatted = Token(1)
        /\ Cardinality(TokenStarts) = 2 => pfOut.formatted = Token(1) \o <<"^">> \o Token(2)
        /\ Cardinality(TokenStarts) = 3 =>
              pfOut.formatted = Token(1) \o <<"^">> \o Token(2) \o <<"^">> \o Token(3)

\* the name "Smith John Q." has been formatted
C30_Witness ==
    /\ pfPc = "output"
    /\ pfIn = <<"Smith", " ", "John", " ", "Q.">>
    /\ pfOut.arg = "(0010,0010)=Smith^John^Q."

----------------------------------------------------------------------------
(* Claims about the output form and the front/back names of ScanDocument *)

\* the places of an argument in an argument list
Places(args, a) == { i \in DOMAIN args : args[i] = a }

\* the arguments of the batch form and the path of the single form
BatchArgs ==
    {"--batch-start=1", "--batch-increment=1",
     "--batch=" \o TempFilesDir \o "/" \o scBase \o "_%d.jpg"}

SinglePath == TempFilesDir \o "/" \o scBase \o ".jpg"

\* C31: the argument list of every scanimage run ends with --source and "ADF
\* Duplex" (Duplex set) or "ADF Front" (otherwise), and holds one output form:
\* for MultiPage --batch-start=1, --batch-increment=1 and the batch pattern
\* <base>_%d.jpg, each once, and no -o; otherwise -o with <base>.jpg, once,
\* and none of the batch arguments.
C31_OutputFormAndSource ==
    \A k \in ToolRuns :
        LET args == scLog[k].args IN
        /\ Places(args, "--source") = {Len(args) - 1}
        /\ args[Len(args)] = IF scOptions.Duplex THEN "ADF Duplex" ELSE "ADF Front"
        /\ IF scOptions.MultiPage
             THEN /\ \A a \in BatchArgs : Cardinality(Places(args, a)) = 1
                  /\ Places(args, "-o") = {}
                  /\ Places(args, SinglePath) = {}
             ELSE /\ Cardinality(Places(args, "-o")) = 1
                  /\ \A i \in Places(args, "-o") : args[i + 1] = SinglePath
                  /\ \A a \in BatchArgs : Places(args, a) = {}

\* scanimage has run for a duplex batch
C31_Witness ==
    /\ ToolRuns # {}
    /\ scOptions.MultiPage /\ scOptions.Duplex
    /\ scArgs[Len(scArgs)] = "ADF Duplex"
    /\ scArgs[Len(scArgs) - 2] = "--batch=" \o TempFilesDir \o "/" \o scBase \o "_%d.jpg"

\* the names of page n, the sequential one and the front/back ones, under
\* which a file exists
Existing(n) == { DuplexPatterns(scBase, n)[k] : k \in 1..5 } \cap storage

RECURSIVE FirstGapFrom(_)
\* the first page number from n on without a file under any of its names
FirstGapFrom(n) ==
    IF n > maxPages \/ Existing(n) = {} THEN n ELSE FirstGapFrom(n + 1)

\* the files for which os.Stat was called
Probed == { scLog[k].file : k \in StatCalls }

\* the names that are not front/back names: the sequential names of as many
\* pages as there were probes, and the single output path
PlainNames ==
    { BatchFile(scBase, n) : n \in 1..Cardinality(StatCalls) } \cup {SingleFile(scBase)}

\* the front/back names are tried: a duplex batch without a first page
FallbackCase == scOptions.MultiPage /\ scOptions.Duplex /\ BatchFile(scBase, 1) \notin storage

-----------------------------------------------------------------------------
(* Claims about the files that SendToPacs removes and the UIDs of its runs *)

\* C33: a JPG file of the run is gone from the temp directory only if dcmsend
\* succeeded for its page in this run; in the list that SendToPacs returns
\* the JPG file of every failed page is still in the temp directory.
C33_SourceKeptUnlessSent ==
    /\ \A k \in DOMAIN jpgFiles :
          jpgFiles[k] \notin storage => (k - 1) \in SentPages
    /\ returned = "progress" =>
          \A k \in DOMAIN progress :
              progress[k].Status = "failed" => jpgFiles[k] \in storage

\* a run has returned with a failed page whose JPG file is kept, followed by a
\* completed page whose JPG file is removed
C33_Witness ==
    /\ returned = "progress"
    /\ Len(progress) >= 2
    /\ progress[1].Status = "failed" /\ jpgFiles[1] \in storage
    /\ progress[2].Status = "completed" /\ jpgFiles[2] \notin storage

\* the cleanupFiles calls of the run
CleanupCalls == { j \in DOMAIN calls : calls[j].tool = "cleanup" }

\* C34: every cleanupFiles call asks for the removal of the JPG file and of
\* the DCM file of its page, also when the removal of the JPG file fails.
C34_BothRemovalsAttempted ==
    \A j \in CleanupCalls :
        calls[j].removes = <<calls[j].file, DcmName(calls[j].file)>>

\* the files that getJpgFilesFromTempDir of a following run finds
Eligible == { f \in storage : f.ext = "jpg" }

\* C35: the JPG file of a completed page is not in the temp directory any
\* more, so that no later run of SendToPacs finds and sends it again.
C35_CompletedNotEligible ==
    \A k \in DOMAIN progress :
        progress[k].Status = "completed" => jpgFiles[k] \notin Eligible

\* C36: no two runs of SendToPacs have the same study instance UID, also when
\* they start within the same second.
C36_DistinctStudyUIDs ==
    \A i, j \in DOMAIN issuedUIDs :
        i # j => issuedUIDs[i] # issuedUIDs[j]

-----------------------------------------------------------------------------
(* Claims about the lock and the entries of the registry *)

\* C37: while scanimage -L of a poll cycle runs, for however long, the lock
\* of the registry is free: a handler that is about to call GetScanners or
\* GetConnectedScanners, and ScanDocument at its lookup of the device, can
\* take its step.
C37_EnumerationHoldsNoLock ==
    (pollPc = "exec" /\ ~panicked) =>
        /\ mu = "free"
        /\ rdPc = "idle" => (ENABLED GetScanners /\ ENABLED GetConnectedScanners)
        /\ scPc = "idle" => ENABLED ScanStart

\* scanimage -L of a later cycle runs, the registry has an entry, and a
\* handler holds the list it got
C37_Witness ==
    /\ pollPc = "exec"
    /\ mu = "free"
    /\ rdPc = "holding"
    /\ Len(rdList) >= 1

\* C38: no step changes the Name or the Device of an entry of the registry,
\* also not the step for a line that reports the device again under another
\* name; and the steps of the two loops that mark entries disconnected (after
\* a failed command, and for the entries absent from the output) leave the
\* LastSeen of every entry as it is.
C38_DisconnectKeepsRest ==
    [][ \A d \in DOMAIN scanners :
          /\ d \in DOMAIN scanners'
          /\ scanners'[d].Name = scanners[d].Name
          /\ scanners'[d].Device = scanners[d].Device
          /\ pollPc \in {"markall", "absent"} =>
                 scanners'[d].LastSeen = scanners[d].LastSeen ]_vars

\* a successful cycle has marked disconnected an entry that was connected
\* and whose LastSeen is older than the clock, and has found again an entry
\* that a failed cycle or an absence had disconnected
C38_Witness ==
    /\ AfterCycle("ok")
    /\ \E d \in DOMAIN preCycle \ enumerated :
          /\ preCycle[d].Connected
          /\ ~scanners[d].Connected
          /\ scanners[d].Status = "disconnected"
          /\ scanners[d].LastSeen # FormatRFC3339(clock)
    /\ \E d \in enumerated \cap DOMAIN preCycle :
          ~preCycle[d].Connected /\ scanners[d].Connected

-----------------------------------------------------------------------------
(* Claims about parseFindscuOutput and formatPatientNameForDicom as functions *)

\* C39: parseFindscuOutput returns a list of records for every output,
\* without a runtime fault, also for an output with a field line whose "]"
\* comes before its "[" or that has no brackets.
C39_ParseNeverFaults ==
    pfPc = "output" => ~pfOut.fault

\* C40: formatPatientNameForDicom applied to a name it has returned returns
\* that name: format(format(n)) = format(n) for every display name n.
C40_FormatIdempotent ==
    pfPc = "again" =>
        /\ pfOut.formatted = formatPatientNameForDicom(pfIn)
        /\ pfOut.again = pfOut.formatted

\* the formatted name of " Smith  John" has been formatted again
C40_Witness ==
    /\ pfPc = "again"
    /\ pfIn = <<" ", "Smith", " ", " ", "John">>
    /\ pfOut.formatted = <<"Smith", "^", "John">>
    /\ pfOut.again = <<"Smith", "^", "John">>

====
